---- MODULE Spec2Model ----
(***************************************************************************)
(* IPEDS ETL of ftrain/datagoose: the raw loaders (load_year.py,           *)
(* load_2023.py), the transforms (transform_year.py, transform_2023.py)    *)
(* and the audit log they write (etl_run / etl_table_log).                 *)
(*                                                                         *)
(* One script runs at a time on its own psycopg2 connection.  A script is  *)
(* modelled as a start action, one action per survey (the whole load_*     *)
(* function or loop iteration, with its audit bracketing and its exception *)
(* handlers), a completion action and a verification/summary action.       *)
(*                                                                         *)
(* Values: numeric cells are integers >= 0, NullInt is SQL NULL / pandas   *)
(* NaN in a numeric column, Dot is the text '.' IPEDS uses for "not        *)
(* applicable" (a cell that does not cast to a number).  Text cells are    *)
(* strings.                                                                *)
(***************************************************************************)
EXTENDS Integers, Sequences, FiniteSets, Bags, TLC

VARIABLES
    staging,      \* raw schema: table name -> set of rows (DOMAIN = existing tables)
    institution,  \* normalized institution table: bag of rows
    facts,        \* normalized fact tables: table name -> bag of rows
    etl_run,      \* audit: sequence of run rows, id = index
    etl_table_log,\* audit: sequence of table entries, id = index
    script,       \* which script is running, "none" when no script runs
    pc,           \* position of the running script
    year,         \* the running script's year argument
    idx,          \* index of the next survey / file of the running script
    run_id,       \* the running script's audit run id
    conn,         \* psycopg2 connection: "idle", "aborted" (failed transaction), "closed"
    rets,         \* values returned so far by the load_* / load_file calls of this run
    ended,        \* run id -> [how the script ended: "active", "returned", "raised"; script]
    applied,      \* run id -> number of etl_complete_run calls that took effect
    faults,       \* number of failures injected so far
    snap,         \* the fact tables as they were when the current/last run started
    nruns,        \* number of scripts started so far
    call          \* a function called on its own: [fn, arg, out], or NoCall

vars == << staging, institution, facts, etl_run, etl_table_log, script, pc, year,
           idx, run_id, conn, rets, ended, applied, faults, snap, nruns, call >>

(***************************************************************************)
(* Bounds                                                                  *)
(***************************************************************************)
MaxRuns == 2
MaxFaults == 1

Years == {2022, 2023}

NullInt == 0 - 1
Dot == 0 - 2

(***************************************************************************)
(* Names                                                                   *)
(***************************************************************************)
Pad2(n) == IF n < 10 THEN "0" \o ToString(n) ELSE ToString(n)

get_sfa_year(y) == Pad2((y - 1) % 100) \o Pad2(y % 100)

Races == << "APTS", "AIAN", "ASIA", "BKAA", "HISP", "NHPI", "WHIT", "2MOR", "UNKN", "NRAL" >>
Genders == << "total", "men", "women" >>

RaceCol(race) ==
    CASE race = "APTS" -> "totl"
      [] race = "AIAN" -> "aian"
      [] race = "ASIA" -> "asia"
      [] race = "BKAA" -> "bkaa"
      [] race = "HISP" -> "hisp"
      [] race = "NHPI" -> "nhpi"
      [] race = "WHIT" -> "whit"
      [] race = "2MOR" -> "2mor"
      [] race = "UNKN" -> "unkn"
      [] race = "NRAL" -> "nral"

GenderCol(gender) ==
    CASE gender = "total" -> "t"
      [] gender = "men" -> "m"
      [] gender = "women" -> "w"

\* Branches in which the last pair of each race repeats the one before it.
Pairs_repeated ==
    [ i \in 1..(Len(Races) * Len(Genders)) |->
        [ race |-> Races[((i - 1) \div Len(Genders)) + 1],
          gender |-> Genders[((i - 1) % (Len(Genders) - 1)) + 1] ] ]

\* The declared (race, gender) branches of the UNION ALL unpivots, in order.
Pairs ==
    [ i \in 1..(Len(Races) * Len(Genders)) |->
        [ race |-> Races[((i - 1) \div Len(Genders)) + 1],
          gender |-> Genders[((i - 1) % Len(Genders)) + 1] ] ]

\* The source column of a branch: ef/gr + race + gender letter; completions
\* spells the all-races total "ctotal?" and the others "c" + race + letter.
PairCol(prefix, p) ==
    IF prefix = "c" /\ p.race = "APTS"
    THEN "ctotal" \o GenderCol(p.gender)
    ELSE prefix \o RaceCol(p.race) \o GenderCol(p.gender)

(***************************************************************************)
(* The SQL of the transforms.  A statement is INSERT ... SELECT ... ON      *)
(* CONFLICT (key) DO UPDATE: Feed is the set of source rows its SELECT     *)
(* reads, Project the rows one source row proposes, SqlRaises the cases in *)
(* which PostgreSQL rejects the statement as a whole.                      *)
(***************************************************************************)
\* A different declared order: admissions ahead of institution.
TransformSurveys_reordered ==
    << "admissions", "institution", "graduation_rates", "graduation_rates_pell",
       "enrollment", "completions", "financial_aid" >>

TransformSurveys ==
    << "institution", "admissions", "graduation_rates", "graduation_rates_pell",
       "enrollment", "completions", "financial_aid" >>

FactTables ==
    { "admissions", "graduation_rates", "graduation_rates_pell", "enrollment",
      "completions", "financial_aid" }

\* SELECT unitid FROM institution
InstIds(inst) == { r.unitid : r \in BagToSet(inst) }

Coalesce(a, b) == IF a # NullInt THEN a ELSE b

NullIfDot(v) == IF v = Dot THEN NullInt ELSE v

\* CASE efalevel WHEN 1 THEN 'all' WHEN 2 THEN 'undergraduate' WHEN 4 THEN 'graduate' END
EfLevel(efalevel) ==
    CASE efalevel = 1 -> "all"
      [] efalevel = 2 -> "undergraduate"
      [] efalevel = 4 -> "graduate"
      [] OTHER -> "NULL"

\* CASE psgrtype WHEN 1 THEN 'total' WHEN 2 THEN 'pell' WHEN 3 ... WHEN 4 ... END
PellStatus(psgrtype) ==
    CASE psgrtype = 1 -> "total"
      [] psgrtype = 2 -> "pell"
      [] psgrtype = 3 -> "non_pell_loan"
      [] psgrtype = 4 -> "neither"
      [] OTHER -> "NULL"

\* A row of NULLs: what a LEFT JOIN yields for an unmatched right side.
NullRow == [ c \in { PairCol("gr", Pairs[i]) : i \in 1..Len(Pairs) } |-> NullInt ]

LeftJoin(right, unitid) ==
    IF \E r \in right : r.unitid = unitid
    THEN { r \in right : r.unitid = unitid }
    ELSE { NullRow }

\* cohorts c LEFT JOIN completers comp LEFT JOIN transfers t ON unitid
GrJoined(src) ==
    { [ c |-> c, comp |-> comp, t |-> t ] :
        << c, comp, t >> \in
            { j \in { r \in src : r.grtype = 8 }
                    \X ( { r \in src : r.grtype = 12 } \cup { NullRow } )
                    \X ( { r \in src : r.grtype = 16 } \cup { NullRow } ) :
                /\ j[2] \in LeftJoin({ r \in src : r.grtype = 12 }, j[1].unitid)
                /\ j[3] \in LeftJoin({ r \in src : r.grtype = 16 }, j[1].unitid) } }

\* The SELECT without its WHERE unitid IN (SELECT unitid FROM institution).
GatedByInstitution_ungated(rows, inst) == rows

GatedByInstitution(rows, inst) == { r \in rows : r.unitid \in InstIds(inst) }

\* The source rows (for graduation_rates: joined triples) the SELECT reads.
Feed(table, src, inst) ==
    CASE table = "institution" -> { r \in src : r.unitid # NullInt }
      [] table = "admissions" -> GatedByInstitution(src, inst)
      [] table = "graduation_rates" ->
            { j \in GrJoined(src) : j.c.unitid \in InstIds(inst) }
      [] table = "graduation_rates_pell" ->
            { r \in GatedByInstitution(src, inst) : r.psgrtype \in {1, 2, 3, 4} }
      [] table = "enrollment" ->
            { r \in GatedByInstitution(src, inst) : r.efalevel \in {1, 2, 4} }
      [] table = "completions" ->
            { r \in GatedByInstitution(src, inst) : r.majornum = 1 }
      [] table = "financial_aid" -> GatedByInstitution(src, inst)

\* The rows one source row proposes for insertion.
Project(scr, table, y, r) ==
    CASE table = "institution" ->
            { [ unitid |-> r.unitid, name |-> r.instnm, city |-> r.city,
                state |-> r.stabbr, zip |-> r.zip,
                latitude |-> IF scr = "transform_year" THEN NullIfDot(r.latitude)
                             ELSE r.latitude,
                longitude |-> IF scr = "transform_year" THEN NullIfDot(r.longitud)
                              ELSE r.longitud,
                sector |-> r.sector, control |-> r.control, level |-> r.iclevel,
                hbcu |-> (r.hbcu = 1), tribal |-> (r.tribal = 1) ] }
      [] table = "admissions" ->
            { [ unitid |-> r.unitid, year |-> y,
                applicants_total |-> r.applcn, applicants_men |-> r.applcnm,
                applicants_women |-> r.applcnw, admitted_total |-> r.admssn,
                admitted_men |-> r.admssnm, admitted_women |-> r.admssnw,
                enrolled_total |-> r.enrlt, enrolled_men |-> r.enrlm,
                enrolled_women |-> r.enrlw, sat_verbal_25 |-> r.satvr25,
                sat_verbal_75 |-> r.satvr75, sat_math_25 |-> r.satmt25,
                sat_math_75 |-> r.satmt75, act_composite_25 |-> r.actcm25,
                act_composite_75 |-> r.actcm75 ] }
      [] table = "graduation_rates" ->
            { [ unitid |-> r.c.unitid, year |-> y, cohort_type |-> "bachelor",
                race |-> Pairs[i].race, gender |-> Pairs[i].gender,
                cohort_size |-> r.c[PairCol("gr", Pairs[i])],
                completers_150pct |-> r.comp[PairCol("gr", Pairs[i])],
                transfer_out |-> r.t[PairCol("gr", Pairs[i])] ] : i \in 1..Len(Pairs) }
      [] table = "graduation_rates_pell" ->
            { [ unitid |-> r.unitid, year |-> y, cohort_type |-> "bachelor",
                pell_status |-> PellStatus(r.psgrtype),
                cohort_size |-> r.pgadjct, completers_150pct |-> r.pgcmbac ] }
      [] table = "enrollment" ->
            { [ unitid |-> r.unitid, year |-> y, level |-> EfLevel(r.efalevel),
                race |-> Pairs[i].race, gender |-> Pairs[i].gender,
                full_time |-> r[PairCol("ef", Pairs[i])], part_time |-> 0 ] :
              i \in 1..Len(Pairs) }
      [] table = "completions" ->
            { [ unitid |-> r.unitid, year |-> y, cip_code |-> r.cipcode,
                award_level |-> r.awlevel,
                race |-> Pairs[i].race, gender |-> Pairs[i].gender,
                count |-> r[PairCol("c", Pairs[i])] ] : i \in 1..Len(Pairs) }
      [] table = "financial_aid" ->
            { [ unitid |-> r.unitid, year |-> y,
                undergrad_enrolled |-> r.scugrad, pell_recipients |-> r.uagrntp,
                avg_net_price |->
                    IF scr = "transform_year" THEN Coalesce(r.npist2, r.npgrn2) ELSE r.npist2,
                avg_net_price_0_30k |->
                    IF scr = "transform_year" THEN Coalesce(r.npis412, r.npt412) ELSE r.npis412,
                avg_net_price_30_48k |->
                    IF scr = "transform_year" THEN Coalesce(r.npis422, r.npt422) ELSE r.npis422,
                avg_net_price_48_75k |->
                    IF scr = "transform_year" THEN Coalesce(r.npis432, r.npt432) ELSE r.npis432,
                avg_net_price_75_110k |->
                    IF scr = "transform_year" THEN Coalesce(r.npis442, r.npt442) ELSE r.npis442,
                avg_net_price_110k_plus |->
                    IF scr = "transform_year" THEN Coalesce(r.npis452, r.npt452) ELSE r.npis452 ] }

\* The rows the SELECT of a table's statement proposes.
SelectRows(scr, table, y, src, inst) ==
    UNION { Project(scr, table, y, r) : r \in Feed(table, src, inst) }

\* A conflict target of unitid alone, whatever the table.
KeyCols_unitid(table) == { "unitid" }

\* The columns of the ON CONFLICT target (the natural key) of a table.
KeyCols(table) ==
    CASE table = "institution" -> { "unitid" }
      [] table = "admissions" -> { "unitid", "year" }
      [] table = "graduation_rates" -> { "unitid", "year", "cohort_type", "race", "gender" }
      [] table = "graduation_rates_pell" -> { "unitid", "year", "cohort_type", "pell_status" }
      [] table = "enrollment" -> { "unitid", "year", "level", "race", "gender" }
      [] table = "completions" ->
            { "unitid", "year", "cip_code", "award_level", "race", "gender" }
      [] table = "financial_aid" -> { "unitid", "year" }

Key(table, row) == [ c \in KeyCols(table) |-> row[c] ]

\* The columns a statement casts to a number (::integer, ::double precision).
CastCols(scr, table) ==
    CASE table = "institution" ->
            { "sector", "control", "level" }
            \cup (IF scr = "transform_year" THEN {} ELSE { "latitude", "longitude" })
      [] table = "admissions" ->
            { "applicants_total", "applicants_men", "applicants_women", "admitted_total",
              "admitted_men", "admitted_women", "enrolled_total", "enrolled_men",
              "enrolled_women", "sat_verbal_25", "sat_verbal_75", "sat_math_25",
              "sat_math_75", "act_composite_25", "act_composite_75" }
      [] table = "graduation_rates" -> { "cohort_size", "completers_150pct", "transfer_out" }
      [] table = "graduation_rates_pell" -> { "cohort_size", "completers_150pct" }
      [] table = "enrollment" -> { "full_time" }
      [] table = "completions" -> { "award_level", "count" }
      [] table = "financial_aid" ->
            { "undergrad_enrolled", "pell_recipients", "avg_net_price",
              "avg_net_price_0_30k", "avg_net_price_30_48k", "avg_net_price_48_75k",
              "avg_net_price_75_110k", "avg_net_price_110k_plus" }

\* PostgreSQL rejects the statement: a cell that does not cast to a number
\* ("invalid input syntax"), or two proposed rows with the same key ("ON
\* CONFLICT DO UPDATE command cannot affect row a second time").
SqlRaises(scr, table, y, src, inst) ==
    \/ \E row \in SelectRows(scr, table, y, src, inst) :
          \E c \in CastCols(scr, table) : row[c] = Dot
    \/ \E r1, r2 \in Feed(table, src, inst) :
          /\ r1 # r2
          /\ \E a \in Project(scr, table, y, r1), b \in Project(scr, table, y, r2) :
                Key(table, a) = Key(table, b)

\* A count of the rows that were new to the table only.
rowcount_inserted(old, new) == Cardinality(new \ BagToSet(old))

\* cur.rowcount after the statement: the rows it inserted or updated.
rowcount(old, new) == Cardinality(new)

\* A plain INSERT, without the ON CONFLICT clause.
Upsert_insert(table, old, new) == old (+) SetToBag(new)

\* INSERT ... ON CONFLICT (key) DO UPDATE SET every non-key column = EXCLUDED:
\* a row of the table (a bag) whose key is proposed again is replaced in place.
Upsert(table, old, new) ==
    LET keep == { r \in BagToSet(old) : \A n \in new : Key(table, n) # Key(table, r) }
    IN  [ r \in keep \cup new |-> IF r \in new THEN 1 ELSE old[r] ]

(***************************************************************************)
(* The raw directory: zip name -> the archive's members, in listing order. *)
(* A member is [csv |-> its name ends with ".csv", rows |-> its table].    *)
(***************************************************************************)
HdRow(u, nm, lat) ==
    [ unitid |-> u, instnm |-> nm, city |-> "Town", stabbr |-> "ST", zip |-> "00000",
      latitude |-> lat, longitud |-> 0, sector |-> 1, control |-> 1, iclevel |-> 1,
      hbcu |-> 0, tribal |-> 0 ]

AdmRow(u, v) ==
    [ unitid |-> u, applcn |-> v, applcnm |-> v, applcnw |-> v, admssn |-> v,
      admssnm |-> v, admssnw |-> v, enrlt |-> v, enrlm |-> v, enrlw |-> v,
      satvr25 |-> v, satvr75 |-> v, satmt25 |-> v, satmt75 |-> v,
      actcm25 |-> NullInt, actcm75 |-> NullInt ]

WideCols(prefix, v) ==
    [ c \in { PairCol(prefix, Pairs[i]) : i \in 1..Len(Pairs) } |-> v ]

GrRow(u, grtype, v) == [ unitid |-> u, grtype |-> grtype ] @@ WideCols("gr", v)

PellRow(u, psgrtype, v) ==
    [ unitid |-> u, psgrtype |-> psgrtype, pgadjct |-> v, pgcmbac |-> v ]

EfRow(u, efalevel, v) == [ unitid |-> u, efalevel |-> efalevel ] @@ WideCols("ef", v)

CRow(u, cip, awlevel, majornum, v) ==
    [ unitid |-> u, cipcode |-> cip, awlevel |-> awlevel, majornum |-> majornum ]
        @@ WideCols("c", v)

SfaRow(u, pub, priv) ==
    [ unitid |-> u, scugrad |-> 100, uagrntp |-> 40,
      npist2 |-> pub, npis412 |-> pub, npis422 |-> pub, npis432 |-> pub,
      npis442 |-> pub, npis452 |-> pub,
      npgrn2 |-> priv, npt412 |-> priv, npt422 |-> priv, npt432 |-> priv,
      npt442 |-> priv, npt452 |-> priv ]

Csv(rows) == << [ csv |-> TRUE, rows |-> rows ] >>

\* Unit 2 is in the 2022 directory and not in the 2023 one; unit 1 was renamed.
\* EF2022A.zip does not exist; C2022_A.zip holds no .csv member.
RawDir ==
    ( "HD2022.zip" :> Csv({ HdRow(1, "Alpha", Dot), HdRow(2, "Beta", 40),
                            HdRow(NullInt, "Gamma", 41) }) )
    @@ ( "HD2023.zip" :> Csv({ HdRow(1, "Alpha State", 39) }) )
    @@ ( "ADM2022.zip" :> Csv({ AdmRow(1, 10), AdmRow(2, 20) }) )
    @@ ( "ADM2023.zip" :> Csv({ AdmRow(1, 11), AdmRow(2, 21) }) )
    @@ ( "GR2022.zip" :> Csv({ GrRow(2, 8, 5) }) )
    @@ ( "GR2023.zip" :> Csv({ GrRow(1, 8, 6), GrRow(1, 12, 4), GrRow(1, 16, 1) }) )
    @@ ( "GR2022_PELL_SSL.zip" :> Csv({ PellRow(1, 1, 7), PellRow(1, 5, 7) }) )
    @@ ( "GR2023_PELL_SSL.zip" :> Csv({ PellRow(1, 2, 8) }) )
    @@ ( "EF2023A.zip" :> Csv({ EfRow(1, 1, 30), EfRow(1, 3, 12) }) )
    @@ ( "C2022_A.zip" :> << [ csv |-> FALSE, rows |-> {} ] >> )
    @@ ( "C2023_A.zip" :> Csv({ CRow(1, "01.0101", 5, 1, 3), CRow(1, "01.0101", 5, 2, 1) }) )
    @@ ( "SFA2122.zip" :> Csv({ SfaRow(2, NullInt, 7) }) )
    @@ ( "SFA2223.zip" :> Csv({ SfaRow(1, 9, NullInt), SfaRow(2, NullInt, 8) }) )
    @@ ( "IC2023.zip" :> Csv({ [ unitid |-> 1, openadmp |-> 1 ] }) )

\* (pattern, table_suffix): the pattern is pre {year} post, or pre {year2} post.
SURVEY_FILES ==
    << [ pre |-> "HD", y2 |-> FALSE, post |-> ".zip", suffix |-> "hd" ],
       [ pre |-> "ADM", y2 |-> FALSE, post |-> ".zip", suffix |-> "adm" ],
       [ pre |-> "GR", y2 |-> FALSE, post |-> ".zip", suffix |-> "gr" ],
       [ pre |-> "GR", y2 |-> FALSE, post |-> "_PELL_SSL.zip", suffix |-> "gr_pell_ssl" ],
       [ pre |-> "GR", y2 |-> FALSE, post |-> "_L2.zip", suffix |-> "gr_l2" ],
       [ pre |-> "EF", y2 |-> FALSE, post |-> "A.zip", suffix |-> "efa" ],
       [ pre |-> "EF", y2 |-> FALSE, post |-> "B.zip", suffix |-> "efb" ],
       [ pre |-> "EF", y2 |-> FALSE, post |-> "C.zip", suffix |-> "efc" ],
       [ pre |-> "EF", y2 |-> FALSE, post |-> "D.zip", suffix |-> "efd" ],
       [ pre |-> "C", y2 |-> FALSE, post |-> "_A.zip", suffix |-> "c_a" ],
       [ pre |-> "C", y2 |-> FALSE, post |-> "_B.zip", suffix |-> "c_b" ],
       [ pre |-> "C", y2 |-> FALSE, post |-> "_C.zip", suffix |-> "c_c" ],
       [ pre |-> "SFA", y2 |-> TRUE, post |-> ".zip", suffix |-> "sfa" ],
       [ pre |-> "IC", y2 |-> FALSE, post |-> ".zip", suffix |-> "ic" ],
       [ pre |-> "EFFY", y2 |-> FALSE, post |-> ".zip", suffix |-> "effy" ],
       [ pre |-> "EFIA", y2 |-> FALSE, post |-> ".zip", suffix |-> "efia" ],
       [ pre |-> "FLAGS", y2 |-> FALSE, post |-> ".zip", suffix |-> "flags" ],
       [ pre |-> "OM", y2 |-> FALSE, post |-> ".zip", suffix |-> "om" ] >>

FILES_2023 ==
    << [ zip |-> "HD2023.zip", table |-> "hd2023" ],
       [ zip |-> "ADM2023.zip", table |-> "adm2023" ],
       [ zip |-> "GR2023.zip", table |-> "gr2023" ],
       [ zip |-> "GR2023_PELL_SSL.zip", table |-> "gr2023_pell_ssl" ],
       [ zip |-> "EF2023A.zip", table |-> "ef2023a" ],
       [ zip |-> "EF2023B.zip", table |-> "ef2023b" ],
       [ zip |-> "C2023_A.zip", table |-> "c2023_a" ],
       [ zip |-> "SFA2223.zip", table |-> "sfa2223" ],
       [ zip |-> "IC2023.zip", table |-> "ic2023" ] >>

\* The files a raw loader walks, as (zip, table) for its year.
LoadFiles(scr, y) ==
    IF scr = "load_2023" THEN FILES_2023
    ELSE [ i \in 1..Len(SURVEY_FILES) |->
            [ zip |-> SURVEY_FILES[i].pre
                      \o (IF SURVEY_FILES[i].y2 THEN get_sfa_year(y) ELSE ToString(y))
                      \o SURVEY_FILES[i].post,
              table |-> SURVEY_FILES[i].suffix \o ToString(y) ] ]

\* [n for n in zf.namelist() if n.endswith(".csv")][0]
CsvMembers(members) == SelectSeq(members, LAMBDA m : m.csv)

ExtractRaises(members) == Len(CsvMembers(members)) = 0

extract_csv_from_zip(members) == CsvMembers(members)[1].rows

\* The source table a transform reads for a normalized table.
SourceTable(scr, table, y, st) ==
    IF scr = "transform_2023"
    THEN CASE table = "institution" -> "hd2023"
           [] table = "admissions" -> "adm2023"
           [] table = "graduation_rates" -> "gr2023"
           [] table = "graduation_rates_pell" -> "gr2023_pell_ssl"
           [] table = "enrollment" -> "ef2023a"
           [] table = "completions" -> "c2023_a"
           [] table = "financial_aid" -> "sfa2223"
    ELSE CASE table = "institution" -> "hd" \o ToString(y)
           [] table = "admissions" -> "adm" \o ToString(y)
           [] table = "graduation_rates" -> "gr" \o ToString(y)
           [] table = "graduation_rates_pell" -> "gr_pell_ssl" \o ToString(y)
           [] table = "enrollment" -> "efa" \o ToString(y)
           [] table = "completions" -> "c_a" \o ToString(y)
           [] table = "financial_aid" ->
                IF ("sfa" \o ToString(y)) \in DOMAIN st
                THEN "sfa" \o ToString(y)
                ELSE "sfa" \o get_sfa_year(y)

\* A check that finds every table.
table_exists_always(st, name) == TRUE

table_exists(st, name) == name \in DOMAIN st

(***************************************************************************)
(* The audit functions of the schema (etl_start_run, etl_complete_run,     *)
(* etl_log_table_start, etl_log_table_complete).                           *)
(***************************************************************************)
etl_start_run(runs, run_type, y) ==
    Append(runs, [ run_type |-> run_type, data_year |-> y, status |-> "running",
                   error |-> "NULL" ])

etl_complete_run(runs, id, status, error) ==
    [ runs EXCEPT ![id].status = status, ![id].error = error ]

etl_log_table_start(log, rid, table_name, operation, source_file, source_table) ==
    Append(log, [ run_id |-> rid, table_name |-> table_name, operation |-> operation,
                  source_file |-> source_file, source_table |-> source_table,
                  status |-> "running", rows_affected |-> NullInt, error |-> "NULL" ])

etl_log_table_complete(log, id, rows, status, error) ==
    [ log EXCEPT ![id].rows_affected = rows, ![id].status = status, ![id].error = error ]

\* Exception texts.
DbError == "database error"
SqlError == "statement rejected"
UndefinedTable == "relation does not exist"
InFailedSqlTransaction == "current transaction is aborted"
IndexError == "list index out of range"
TypeError == "unsupported format string passed to NoneType.__format__"
MemoryError == "out of memory"

(***************************************************************************)
(* psycopg2: a statement that fails leaves the connection in a failed      *)
(* transaction; until rollback() every execute raises                      *)
(* InFailedSqlTransaction.                                                 *)
(***************************************************************************)
FaultChoices == IF faults < MaxFaults THEN { FALSE, TRUE } ELSE { FALSE }

\* An __exit__ that does not roll back before it writes the audit entry.
TableLogger_exit_norollback(scr, c, log, log_id, exc) ==
    IF c = "idle"
    THEN [ conn |-> "idle",
           log |-> etl_log_table_complete(log, log_id, 0, "failed", exc),
           exc |-> exc ]
    ELSE [ conn |-> c, log |-> log, exc |-> InFailedSqlTransaction ]

\* TableLogger.__exit__(exc_type, exc_val, exc_tb) with exc_type not None, on a
\* connection in state c: the new connection state, the table log, and the
\* exception that leaves the with block.
TableLogger_exit(scr, c, log, log_id, exc) ==
    IF scr = "transform_year" \/ c = "idle"
    THEN [ conn |-> "idle",
           log |-> etl_log_table_complete(log, log_id, 0, "failed", exc),
           exc |-> exc ]
    ELSE [ conn |-> c, log |-> log, exc |-> InFailedSqlTransaction ]

\* An except clause that marks failed every run recorded for the year.
RunExcept_byyear(c, runs, appl, rid, exc) ==
    IF c = "idle"
    THEN [ runs |-> [ r \in DOMAIN runs |->
                        IF runs[r].data_year = runs[rid].data_year
                        THEN [ runs[r] EXCEPT !.status = "failed", !.error = exc ]
                        ELSE runs[r] ],
           applied |-> [ appl EXCEPT ![rid] = @ + 1 ] ]
    ELSE [ runs |-> runs, applied |-> appl ]

\* except Exception as e: complete_run("failed", str(e)); raise
RunExcept(c, runs, appl, rid, exc) ==
    IF c = "idle"
    THEN [ runs |-> etl_complete_run(runs, rid, "failed", exc),
           applied |-> [ appl EXCEPT ![rid] = @ + 1 ] ]
    ELSE [ runs |-> runs, applied |-> appl ]

\* The script ends: finally conn.close().
ScriptEnds(how) ==
    /\ script' = "none"
    /\ pc' = "idle"
    /\ idx' = 0
    /\ conn' = "closed"
    /\ ended' = [ ended EXCEPT ![run_id].how = how ]

(***************************************************************************)
(* transform_year(year) and transform_2023.main()                          *)
(***************************************************************************)
\* conn = connect(); run_schema(conn); tracker.start_run()
TransformStart(scr, y) ==
    /\ script = "none"
    /\ nruns < MaxRuns
    /\ nruns' = nruns + 1
    /\ script' = scr
    /\ year' = y
    /\ etl_run' = etl_start_run(etl_run, "transform", y)
    /\ run_id' = Len(etl_run) + 1
    /\ applied' = Append(applied, 0)
    /\ ended' = Append(ended, [ how |-> "active", script |-> scr ])
    /\ pc' = "surveys"
    /\ idx' = 1
    /\ conn' = "idle"
    /\ rets' = << >>
    /\ snap' = facts
    /\ UNCHANGED << staging, institution, facts, etl_table_log, faults, call >>

\* The statement of a table ran and was committed: the normalized tables after it.
InstitutionAfter(scr, table, y, src, inst) ==
    IF table = "institution"
    THEN Upsert(table, inst, SelectRows(scr, table, y, src, inst))
    ELSE inst

FactsAfter(scr, table, y, src, inst, f) ==
    IF table = "institution"
    THEN f
    ELSE [ f EXCEPT ![table] = Upsert(table, @, SelectRows(scr, table, y, src, inst)) ]

\* One load_<table>(conn, tracker, year) call, and on an exception the except
\* clause and the finally of the script.
TransformSurvey ==
    /\ script \in { "transform_year", "transform_2023" }
    /\ pc = "surveys"
    /\ idx <= Len(TransformSurveys)
    /\ LET table == TransformSurveys[idx]
           source == SourceTable(script, table, year, staging)
           log1 == etl_log_table_start(etl_table_log, run_id, table, "transform",
                                       "NULL", source)
           log_id == Len(log1)
       IN  IF script = "transform_year" /\ ~table_exists(staging, source)
           THEN \* Skipping - source table not found: return 0
                /\ idx' = idx + 1
                /\ rets' = Append(rets, 0)
                /\ UNCHANGED << staging, institution, facts, etl_run, etl_table_log,
                                script, pc, year, run_id, conn, ended, applied,
                                faults, snap, nruns, call >>
           ELSE \E fault \in FaultChoices :
                LET missing == source \notin DOMAIN staging
                    rejected == IF missing THEN TRUE
                                ELSE SqlRaises(script, table, year, staging[source],
                                               institution)
                    exc == IF missing THEN UndefinedTable
                           ELSE IF rejected THEN SqlError ELSE DbError
                IN  IF ~rejected /\ ~fault
                    THEN \* cur.execute(sql); conn.commit(); tlog.complete(count)
                         LET new == SelectRows(script, table, year, staging[source],
                                               institution)
                             old == IF table = "institution" THEN institution
                                    ELSE facts[table]
                         IN  /\ institution' = InstitutionAfter(script, table, year,
                                                   staging[source], institution)
                             /\ facts' = FactsAfter(script, table, year, staging[source],
                                                    institution, facts)
                             /\ etl_table_log' = etl_log_table_complete(
                                    log1, log_id, rowcount(old, new), "completed", "NULL")
                             /\ idx' = idx + 1
                             /\ rets' = Append(rets, rowcount(old, new))
                             /\ UNCHANGED << staging, etl_run, script, pc, year, run_id,
                                             conn, ended, applied, faults, snap, nruns, call >>
                    ELSE \* cur.execute(sql) raises: __exit__, then the script's except
                         LET x == TableLogger_exit(script, "aborted", log1, log_id, exc)
                             h == RunExcept(x.conn, etl_run, applied, run_id, x.exc)
                         IN  /\ etl_table_log' = x.log
                             /\ etl_run' = h.runs
                             /\ applied' = h.applied
                             /\ faults' = IF rejected THEN faults ELSE faults + 1
                             /\ ScriptEnds("raised")
                             /\ UNCHANGED << staging, institution, facts, year, run_id,
                                             rets, snap, nruns, call >>

\* tracker.complete_run("completed")
TransformComplete ==
    /\ script \in { "transform_year", "transform_2023" }
    /\ pc = "surveys"
    /\ idx > Len(TransformSurveys)
    /\ etl_run' = etl_complete_run(etl_run, run_id, "completed", "NULL")
    /\ applied' = [ applied EXCEPT ![run_id] = @ + 1 ]
    /\ pc' = "verify"
    /\ UNCHANGED << staging, institution, facts, etl_table_log, script, year, idx,
                    run_id, conn, rets, ended, faults, snap, nruns, call >>

\* The verification queries (SELECT COUNT(*) of the seven tables), inside the
\* same try as the surveys.
TransformVerify ==
    /\ script \in { "transform_year", "transform_2023" }
    /\ pc = "verify"
    /\ \E fault \in FaultChoices :
         IF ~fault
         THEN /\ ScriptEnds("returned")
              /\ UNCHANGED << staging, institution, facts, etl_run, etl_table_log,
                              year, run_id, rets, applied, faults, snap, nruns, call >>
         ELSE LET h == RunExcept("aborted", etl_run, applied, run_id, DbError)
              IN  /\ etl_run' = h.runs
                  /\ applied' = h.applied
                  /\ faults' = faults + 1
                  /\ ScriptEnds("raised")
                  /\ UNCHANGED << staging, institution, facts, etl_table_log, year,
                                  run_id, rets, snap, nruns, call >>

(***************************************************************************)
(* load_year(year) and load_2023.main()                                    *)
(***************************************************************************)
\* DROP TABLE IF EXISTS t; CREATE TABLE t (...), then COPY t FROM STDIN
WithTable(st, t, rows) == [ n \in DOMAIN st \cup { t } |-> IF n = t THEN rows ELSE st[n] ]

\* load_file's except Exception as e, on a connection in state c: the table log,
\* and whether load_file returns (0) or lets an exception out.
LoadFileExcept(scr, c, log, log_id, exc) ==
    IF c = "idle"
    THEN [ log |-> etl_log_table_complete(log, log_id, 0, "failed", exc),
           returns |-> (scr = "load_year") ]
    ELSE [ log |-> log, returns |-> FALSE ]

\* load_file(conn, zip, table, run_id) for a zip that exists.  outcome is what
\* happens after the extraction: "ok"; "fault_create" (the DROP/CREATE statement
\* fails); "fail_to_csv" (copy_df_to_table raises while it builds the buffer,
\* before any statement); "fault_copy" (the COPY statement fails).  rets is
\* << the value returned >>, or << >> when load_file raises.
load_file(scr, st, log, c, rid, f, outcome) ==
    IF c # "idle"
    THEN \* etl_log_table_start raises InFailedSqlTransaction
         [ staging |-> st, log |-> log, conn |-> c, rets |-> << >> ]
    ELSE LET log1 == etl_log_table_start(log, rid, f.table, "load", f.zip, "NULL")
             id == Len(log1)
         IN  IF ExtractRaises(RawDir[f.zip])
             THEN LET h == LoadFileExcept(scr, "idle", log1, id, IndexError)
                  IN  [ staging |-> st, log |-> h.log, conn |-> "idle",
                        rets |-> IF h.returns THEN << 0 >> ELSE << >> ]
             ELSE IF outcome = "fault_create"
             THEN LET h == LoadFileExcept(scr, "aborted", log1, id, DbError)
                  IN  [ staging |-> st, log |-> h.log, conn |-> "aborted",
                        rets |-> IF h.returns THEN << 0 >> ELSE << >> ]
             ELSE IF outcome = "fail_to_csv"
             THEN LET h == LoadFileExcept(scr, "idle", log1, id, MemoryError)
                  IN  [ staging |-> WithTable(st, f.table, {}), log |-> h.log,
                        conn |-> "idle",
                        rets |-> IF h.returns THEN << 0 >> ELSE << >> ]
             ELSE IF outcome = "fault_copy"
             THEN LET h == LoadFileExcept(scr, "aborted", log1, id, DbError)
                  IN  [ staging |-> WithTable(st, f.table, {}), log |-> h.log,
                        conn |-> "aborted",
                        rets |-> IF h.returns THEN << 0 >> ELSE << >> ]
             ELSE LET df == extract_csv_from_zip(RawDir[f.zip])
                  IN  [ staging |-> WithTable(st, f.table, df),
                        log |-> etl_log_table_complete(log1, id, Cardinality(df),
                                                       "completed", "NULL"),
                        conn |-> "idle",
                        rets |-> << Cardinality(df) >> ]

\* The loop passes over the files that do not exist (load_year: "if
\* zip_path.exists()" is false; load_2023: load_file returns 0) up to the next
\* file that exists: the index of that file, or one past the end.
NextExisting(scr, y, i) ==
    IF \E j \in i..Len(LoadFiles(scr, y)) : LoadFiles(scr, y)[j].zip \in DOMAIN RawDir
    THEN CHOOSE j \in i..Len(LoadFiles(scr, y)) :
            /\ LoadFiles(scr, y)[j].zip \in DOMAIN RawDir
            /\ \A k \in i..(j - 1) : LoadFiles(scr, y)[k].zip \notin DOMAIN RawDir
    ELSE Len(LoadFiles(scr, y)) + 1

\* The values load_2023's load_file returns for the files passed over.
PassedOver(scr, from, to) == IF scr = "load_2023" THEN [ k \in 1..(to - from) |-> 0 ] ELSE << >>

LoadStart(scr, y) ==
    /\ script = "none"
    /\ nruns < MaxRuns
    /\ nruns' = nruns + 1
    /\ script' = scr
    /\ year' = y
    /\ etl_run' = etl_start_run(etl_run, "raw_load", y)
    /\ run_id' = Len(etl_run) + 1
    /\ applied' = Append(applied, 0)
    /\ ended' = Append(ended, [ how |-> "active", script |-> scr ])
    /\ pc' = "files"
    /\ idx' = NextExisting(scr, y, 1)
    /\ conn' = "idle"
    /\ rets' = PassedOver(scr, 1, NextExisting(scr, y, 1))
    /\ snap' = facts
    /\ UNCHANGED << staging, institution, facts, etl_table_log, faults, call >>

\* The loop iteration of a file that exists, and the iterations after it of
\* files that do not.
LoadFile ==
    /\ script \in { "load_year", "load_2023" }
    /\ pc = "files"
    /\ idx <= Len(LoadFiles(script, year))
    /\ LET f == LoadFiles(script, year)[idx]
           next == NextExisting(script, year, idx + 1)
       IN  \E outcome \in
                IF conn = "idle" /\ ~ExtractRaises(RawDir[f.zip]) /\ faults < MaxFaults
                THEN { "ok", "fault_create", "fail_to_csv", "fault_copy" } ELSE { "ok" } :
            LET r == load_file(script, staging, etl_table_log, conn, run_id, f, outcome)
            IN  /\ staging' = r.staging
                /\ etl_table_log' = r.log
                /\ conn' = r.conn
                /\ rets' = rets \o r.rets \o PassedOver(script, idx + 1, next)
                /\ faults' = IF outcome = "ok" THEN faults ELSE faults + 1
                /\ idx' = next
                /\ UNCHANGED << institution, facts, etl_run, script, pc, year,
                                run_id, ended, applied, snap, nruns, call >>

\* "Complete ETL run": etl_complete_run(run_id, 'completed', NULL)
LoadComplete ==
    /\ script \in { "load_year", "load_2023" }
    /\ pc = "files"
    /\ idx > Len(LoadFiles(script, year))
    /\ IF conn = "idle"
       THEN /\ etl_run' = etl_complete_run(etl_run, run_id, "completed", "NULL")
            /\ applied' = [ applied EXCEPT ![run_id] = @ + 1 ]
            /\ pc' = "summary"
            /\ UNCHANGED << staging, institution, facts, etl_table_log, script, year,
                            idx, run_id, conn, rets, ended, faults, snap, nruns, call >>
       ELSE LET h == RunExcept(conn, etl_run, applied, run_id, InFailedSqlTransaction)
            IN  /\ etl_run' = h.runs
                /\ applied' = h.applied
                /\ ScriptEnds("raised")
                /\ UNCHANGED << staging, institution, facts, etl_table_log, year,
                                run_id, rets, faults, snap, nruns, call >>

\* "Show summary": SELECT table_name, rows_affected, status ... and f"{row[1]:,}"
LoadSummary ==
    /\ script \in { "load_year", "load_2023" }
    /\ pc = "summary"
    /\ \E fault \in FaultChoices :
         LET unformattable ==
                \E i \in 1..Len(etl_table_log) :
                    /\ etl_table_log[i].run_id = run_id
                    /\ etl_table_log[i].rows_affected = NullInt
         IN  IF ~fault /\ ~unformattable
             THEN /\ ScriptEnds("returned")
                  /\ UNCHANGED << staging, institution, facts, etl_run, etl_table_log,
                                  year, run_id, rets, applied, faults, snap, nruns, call >>
             ELSE LET h == IF fault
                           THEN RunExcept("aborted", etl_run, applied, run_id, DbError)
                           ELSE RunExcept("idle", etl_run, applied, run_id, TypeError)
                  IN  /\ etl_run' = h.runs
                      /\ applied' = h.applied
                      /\ faults' = IF fault THEN faults + 1 ELSE faults
                      /\ ScriptEnds("raised")
                      /\ UNCHANGED << staging, institution, facts, etl_table_log, year,
                                      run_id, rets, snap, nruns, call >>

(***************************************************************************)
(* Initial states: an empty database, or the database after load_year(2022)*)
(* load_year(2023) and load_2023 ran without a database error.             *)
(***************************************************************************)
EmptyStaging == [ n \in {} |-> {} ]

\* No function is being called on its own.
NoCall == [ fn |-> "none" ]

\* The files of a loader that exist, in the loader's order.
ExistingFiles(scr, y) ==
    SelectSeq(LoadFiles(scr, y), LAMBDA f : f.zip \in DOMAIN RawDir)

\* What one loader run without a database error leaves: its table entries, in
\* order, and the staging tables it created.
RunEntries(scr, y, rid) ==
    [ i \in 1..Len(ExistingFiles(scr, y)) |->
        load_file(scr, EmptyStaging, << >>, "idle", rid, ExistingFiles(scr, y)[i], "ok").log[1] ]

RunTables(scr, y) ==
    LET one(f) == load_file(scr, EmptyStaging, << >>, "idle", 0, f, "ok").staging
        fs == { ExistingFiles(scr, y)[i] : i \in 1..Len(ExistingFiles(scr, y)) }
    IN  [ t \in UNION { DOMAIN one(f) : f \in fs } |->
            one(CHOOSE f \in fs : t \in DOMAIN one(f))[t] ]

Loaded ==
    [ staging |-> RunTables("load_2023", 2023) @@ RunTables("load_year", 2023)
                  @@ RunTables("load_year", 2022),
      log |-> RunEntries("load_year", 2022, 1) \o RunEntries("load_year", 2023, 2)
              \o RunEntries("load_2023", 2023, 3) ]

LoadedRuns ==
    << [ run_type |-> "raw_load", data_year |-> 2022, status |-> "completed", error |-> "NULL" ],
       [ run_type |-> "raw_load", data_year |-> 2023, status |-> "completed", error |-> "NULL" ],
       [ run_type |-> "raw_load", data_year |-> 2023, status |-> "completed", error |-> "NULL" ] >>

LoadedEnded ==
    << [ how |-> "returned", script |-> "load_year" ],
       [ how |-> "returned", script |-> "load_year" ],
       [ how |-> "returned", script |-> "load_2023" ] >>

Init ==
    /\ \/ /\ staging = EmptyStaging
          /\ etl_run = << >>
          /\ etl_table_log = << >>
          /\ ended = << >>
          /\ applied = << >>
       \/ /\ staging = Loaded.staging
          /\ etl_run = LoadedRuns
          /\ etl_table_log = Loaded.log
          /\ ended = LoadedEnded
          /\ applied = << 1, 1, 1 >>
    /\ institution = EmptyBag
    /\ facts = [ t \in FactTables |-> EmptyBag ]
    /\ script = "none"
    /\ pc = "idle"
    /\ year = 0
    /\ idx = 0
    /\ run_id = 0
    /\ conn = "closed"
    /\ rets = << >>
    /\ faults = 0
    /\ snap = [ t \in FactTables |-> EmptyBag ]
    /\ nruns = 0
    /\ call = NoCall

Next ==
    \/ \E y \in Years : TransformStart("transform_year", y)
    \/ TransformStart("transform_2023", 2023)
    \/ TransformSurvey
    \/ TransformComplete
    \/ TransformVerify
    \/ \E y \in Years : LoadStart("load_year", y)
    \/ LoadStart("load_2023", 2023)
    \/ LoadFile
    \/ LoadComplete
    \/ LoadSummary

Spec == Init /\ [][Next]_vars

\* The transforms alone, over staging tables that no loader touches.
NextTransform ==
    \/ \E y \in Years : TransformStart("transform_year", y)
    \/ TransformStart("transform_2023", 2023)
    \/ TransformSurvey
    \/ TransformComplete
    \/ TransformVerify

SpecTransform == Init /\ [][NextTransform]_vars

\* The four scripts when no statement fails for a reason outside the data.
NextQuiet ==
    \/ \E y \in Years : TransformStart("transform_year", y)
    \/ TransformStart("transform_2023", 2023)
    \/ TransformSurvey /\ faults' = faults
    \/ TransformComplete
    \/ TransformVerify /\ faults' = faults
    \/ \E y \in Years : LoadStart("load_year", y)
    \/ LoadStart("load_2023", 2023)
    \/ LoadFile /\ faults' = faults
    \/ LoadComplete
    \/ LoadSummary /\ faults' = faults

SpecQuiet == Init /\ [][NextQuiet]_vars

\* load_year and transform_year run again and again for one year.
NextRerun ==
    \/ \E y \in Years : TransformStart("transform_year", y) /\ (nruns = 0 \/ y = year)
    \/ TransformSurvey
    \/ TransformComplete
    \/ TransformVerify
    \/ \E y \in Years : LoadStart("load_year", y) /\ (nruns = 0 \/ y = year)
    \/ LoadFile
    \/ LoadComplete
    \/ LoadSummary

SpecRerun == Init /\ [][NextRerun]_vars

(***************************************************************************)
(* load_cip_codes.py.  A string is a sequence of one-character strings.    *)
(***************************************************************************)
MaxFamilyLen == 2
MaxSubLen == 5

Quote == "\""

CodeDigits == { "0", "1" }

BoundedSeq(S, n) == UNION { [ 1..k -> S ] : k \in 0..n }

\* str.strip()
strip(s) ==
    LET kept == { i \in 1..Len(s) : s[i] # " " }
    IN  IF kept = {} THEN << >>
        ELSE SubSeq(s, CHOOSE i \in kept : \A j \in kept : i <= j,
                       CHOOSE i \in kept : \A j \in kept : j <= i)

\* str.zfill(width): zeros on the left, after a leading sign.
zfill(s, width) ==
    IF Len(s) >= width THEN s
    ELSE IF Len(s) > 0 /\ s[1] \in { "+", "-" }
    THEN << s[1] >> \o [ i \in 1..(width - Len(s)) |-> "0" ] \o Tail(s)
    ELSE [ i \in 1..(width - Len(s)) |-> "0" ] \o s

\* str.ljust(width, fillchar)
ljust(s, width, fillchar) ==
    IF Len(s) >= width THEN s ELSE s \o [ i \in 1..(width - Len(s)) |-> fillchar ]

\* '.' in code
HasDot(code) == \E i \in 1..Len(code) : code[i] = "."

FirstDot(code) == CHOOSE i \in 1..Len(code) : code[i] = "." /\ \A j \in 1..(i - 1) : code[j] # "."

\* code.split('.')[0] and code.split('.')[1], for a code that holds a '.'
Part0(code) == SubSeq(code, 1, FirstDot(code) - 1)

Part1(code) ==
    LET rest == SubSeq(code, FirstDot(code) + 1, Len(code))
    IN  IF HasDot(rest) THEN SubSeq(rest, 1, FirstDot(rest) - 1) ELSE rest

\* A cleaning that removes the prefix only.
clean_cip_code_prefix(raw_code) ==
    LET s == strip(raw_code)
    IN  IF Len(s) >= 1 /\ s[1] = "=" THEN SubSeq(s, 2, Len(s)) ELSE s

\* re.sub(r'^="?|"$', '', raw_code.strip())
clean_cip_code(raw_code) ==
    LET s == strip(raw_code)
        a == IF Len(s) >= 1 /\ s[1] = "="
             THEN IF Len(s) >= 2 /\ s[2] = Quote THEN SubSeq(s, 3, Len(s))
                  ELSE SubSeq(s, 2, Len(s))
             ELSE s
    IN  IF Len(a) >= 1 /\ a[Len(a)] = Quote THEN SubSeq(a, 1, Len(a) - 1) ELSE a

\* A level read off the length of the whole code.
get_cip_level_bylength(code) ==
    IF Len(code) <= 2 THEN 2 ELSE IF Len(code) <= 5 THEN 4 ELSE 6

get_cip_level(code) ==
    IF ~HasDot(code) THEN 2
    ELSE IF Len(Part1(code)) = 2 THEN 4
    ELSE 6

normalize_cip_code(code) ==
    IF ~HasDot(code) THEN zfill(code, 2)
    ELSE zfill(Part0(code), 2) \o << "." >>
         \o (IF Len(Part1(code)) < 4 THEN ljust(Part1(code), 4, "0") ELSE Part1(code))

\* The CIPCode / CIPFamily cells of a row of the file: the family digits, then
\* when dotted a '.' and the digits after it, bare or wrapped, padded with
\* blanks or not.
Wrappers == { "bare", "formula", "equals", "quotes" }

Wrapped(w, padded, code) ==
    LET t == CASE w = "bare" -> code
               [] w = "formula" -> << "=", Quote >> \o code \o << Quote >>
               [] w = "equals" -> << "=" >> \o code
               [] w = "quotes" -> << Quote >> \o code \o << Quote >>
    IN  IF padded THEN << " " >> \o t \o << " " >> ELSE t

CipShapes ==
    [ family : BoundedSeq(CodeDigits, MaxFamilyLen), dotted : BOOLEAN,
      sub : BoundedSeq(CodeDigits, MaxSubLen), wrapper : Wrappers, padded : BOOLEAN ]

CipCode(shape) ==
    IF shape.dotted THEN shape.family \o << "." >> \o shape.sub ELSE shape.family

CipRows ==
    { [ shape |-> sh,
        CIPCode |-> Wrapped(sh.wrapper, sh.padded, CipCode(sh)),
        CIPFamily |-> Wrapped(sh.wrapper, sh.padded, sh.family) ] :
      sh \in { x \in CipShapes : x.dotted \/ x.sub = << >> } }

\* The database and the scripts at rest.
AtRest ==
    /\ staging = EmptyStaging
    /\ etl_run = << >>
    /\ etl_table_log = << >>
    /\ ended = << >>
    /\ applied = << >>
    /\ institution = EmptyBag
    /\ facts = [ t \in FactTables |-> EmptyBag ]
    /\ script = "none"
    /\ pc = "idle"
    /\ year = 0
    /\ idx = 0
    /\ run_id = 0
    /\ conn = "closed"
    /\ rets = << >>
    /\ faults = 0
    /\ snap = [ t \in FactTables |-> EmptyBag ]
    /\ nruns = 0

Others ==
    << staging, institution, facts, etl_run, etl_table_log, script, pc, year,
       idx, run_id, conn, rets, ended, applied, faults, snap, nruns >>

InitCip ==
    /\ AtRest
    /\ \E row \in CipRows : call = [ fn |-> "reader", arg |-> row ]

\* main(): the body of "for row in reader" up to the values it inserts.
CipRow ==
    /\ call.fn = "reader"
    /\ LET code_raw == clean_cip_code(call.arg.CIPCode)
           family_raw == clean_cip_code(call.arg.CIPFamily)
       IN  call' = [ fn |-> "main", arg |-> call.arg,
                     out |-> [ code |-> normalize_cip_code(code_raw),
                               code_display |-> code_raw,
                               family |-> zfill(family_raw, 2),
                               level |-> get_cip_level(code_raw) ] ]
    /\ UNCHANGED Others

SpecCip == InitCip /\ [][CipRow]_vars

(***************************************************************************)
(* load_cip_codes.py, main(): the file row by row into ref_cip.  call      *)
(* holds the rows of the file, the number of rows read, the table ref_cip  *)
(* (created empty by main) and the two counters.                           *)
(***************************************************************************)
MaxCipLines == 2

\* CIPTitle of the rows of the file, by line.
CipTitles == [ i \in 1..(MaxCipLines + 1) |-> "Title " \o ToString(i) ]

\* The codes of the file: a family alone (01), a series (01.01), a detailed
\* code (01.0100, 01.0101), written ="..." as in CIPCode2020.csv.
FileShapes ==
    { [ family |-> fam, dotted |-> (sub # << >>), sub |-> sub, wrapper |-> "formula",
        padded |-> FALSE ] :
      fam \in { << "1" >>, << "0", "1" >> },
      sub \in { << >>, << "0", "1" >>, << "0", "1", "0", "0" >>, << "0", "1", "0", "1" >> } }

\* What a line of the file holds besides its title.
LineChoices == [ shape : FileShapes, reserved : BOOLEAN, action : { "", "Moved from" } ]

CipLine(i, c) ==
    [ CIPCode |-> Wrapped(c.shape.wrapper, c.shape.padded, CipCode(c.shape)),
      CIPFamily |-> Wrapped(c.shape.wrapper, c.shape.padded, c.shape.family),
      CIPTitle |-> IF c.reserved THEN "Reserved" ELSE CipTitles[i],
      Action |-> c.action ]

\* The file whose lines hold cs, in order.
CipFile(cs) == [ i \in DOMAIN cs |-> CipLine(i, cs[i]) ]

\* if 'Reserved' in title / if action == 'Moved from': skipped += 1; continue
Skipped(row) == row.CIPTitle = "Reserved" \/ row.Action = "Moved from"

\* ON CONFLICT (code) DO UPDATE SET title = EXCLUDED.title, definition = ...
OnConflict(old, new) == [ old EXCEPT !.title = new.title ]

\* INSERT INTO ref_cip ... ON CONFLICT (code) DO UPDATE
InsertCip(ref_cip, new) ==
    IF \E r \in ref_cip : r.code = new.code
    THEN LET old == CHOOSE r \in ref_cip : r.code = new.code
         IN  (ref_cip \ { old }) \cup { OnConflict(old, new) }
    ELSE ref_cip \cup { new }

InitCipLoad ==
    /\ AtRest
    /\ \E n \in 1..MaxCipLines : \E cs \in [ 1..n -> LineChoices ] :
          call = [ fn |-> "load_cip_codes", arg |-> CipFile(cs), pos |-> 0, ref_cip |-> {},
                   inserted |-> 0, skipped |-> 0, committed |-> FALSE ]

\* One turn of "for row in reader".
CipLoadRow ==
    /\ call.fn = "load_cip_codes"
    /\ call.pos < Len(call.arg)
    /\ LET row == call.arg[call.pos + 1]
           code_raw == clean_cip_code(row.CIPCode)
           family_raw == clean_cip_code(row.CIPFamily)
           new == [ code |-> normalize_cip_code(code_raw), code_display |-> code_raw,
                    family |-> zfill(family_raw, 2), level |-> get_cip_level(code_raw),
                    title |-> row.CIPTitle, action |-> row.Action ]
       IN  call' = IF Skipped(row)
                   THEN [ call EXCEPT !.pos = @ + 1, !.skipped = @ + 1 ]
                   ELSE [ call EXCEPT !.pos = @ + 1, !.inserted = @ + 1,
                                      !.ref_cip = InsertCip(@, new) ]
    /\ UNCHANGED Others

\* conn.commit(), after the last row.
CipLoadCommit ==
    /\ call.fn = "load_cip_codes"
    /\ call.pos = Len(call.arg)
    /\ ~call.committed
    /\ call' = [ call EXCEPT !.committed = TRUE ]
    /\ UNCHANGED Others

NextCipLoad ==
    \/ CipLoadRow
    \/ CipLoadCommit

SpecCipLoad == InitCipLoad /\ [][NextCipLoad]_vars

(***************************************************************************)
(* load_historic.py, and the statements of the transforms, as functions of *)
(* what they read.  A frame is a pandas DataFrame: columns is df.columns   *)
(* in the file's order, rows maps each column name to the row's cell.  A   *)
(* cell is a number, NullInt for an empty cell (NaN), or Dot for a text    *)
(* that is not a number.                                                   *)
(***************************************************************************)
MaxHeader == 4

None == "None"

ValueError == "cannot convert float NaN to integer"

Cells == { NullInt, Dot, 0, 5 }

\* pd.to_numeric(..., errors='coerce') and .fillna(0), cell by cell.
to_numeric(v) == IF v = Dot THEN NullInt ELSE v

fillna0(v) == IF v = NullInt THEN 0 ELSE v

notna(v) == v # NullInt

In(col, columns) == \E i \in 1..Len(columns) : columns[i] = col

\* str.lower() on the column names the files use.
lower(c) ==
    CASE c = "UNITID" -> "unitid"
      [] c = "LINE" -> "line"
      [] c = "EFRACE15" -> "efrace15"
      [] c = "EFRACE16" -> "efrace16"
      [] c = "EFTOTLT" -> "eftotlt"
      [] OTHER -> c

upper(c) ==
    CASE c = "unitid" -> "UNITID"
      [] c = "line" -> "LINE"
      [] c = "efrace15" -> "EFRACE15"
      [] c = "efrace16" -> "EFRACE16"
      [] c = "eftotlt" -> "EFTOTLT"
      [] OTHER -> c

candidates == << "efrace15", "efrace16", "eftotlt", "EFTOTLT" >>

get_total_enrollment_column(columns) ==
    IF In("efrace15", columns) /\ In("efrace16", columns)
    THEN "efrace15+efrace16"
    ELSE LET present == SelectSeq(candidates, LAMBDA col : In(col, columns))
         IN  IF present # << >> THEN present[1] ELSE None

\* Every header of at most MaxHeader distinct columns, in every order.
HeaderNames == { "unitid", "efrace15", "efrace16", "eftotlt", "EFTOTLT" }

Headers ==
    { h \in BoundedSeq(HeaderNames, MaxHeader) :
        \A i, j \in 1..Len(h) : i # j => h[i] # h[j] }

\* read_zip_csv(zip_path): the first member whose name ends in .csv.
read_zip_csv(members) == CsvMembers(members)[1].rows

\* The first of the names a year's file may have that exists in RAW_DIR.
FirstExisting(patterns, dir) ==
    LET found == SelectSeq(patterns, LAMBDA p : p \in DOMAIN dir)
    IN  IF found # << >> THEN found[1] ELSE None

find_enrollment_file(y, dir) ==
    FirstExisting(<< "EF" \o ToString(y) \o "A.zip", "EF" \o ToString(y) \o "_A.zip",
                     "ef" \o ToString(y) \o "a.zip", "ef" \o ToString(y) \o "_a.zip" >>, dir)

\* df.columns = [c.lower() for c in df.columns]
Lowered(df) ==
    [ columns |-> [ i \in 1..Len(df.columns) |-> lower(df.columns[i]) ],
      rows |-> { [ c \in { lower(k) : k \in DOMAIN r } |->
                     r[CHOOSE k \in DOMAIN r : lower(k) = c] ] : r \in df.rows } ]

\* df[df['line'] == 29], or df[df['line'] == 1] when that is empty; the
\* frame itself when it has no line column.
TotalLines(df) ==
    IF ~In("line", df.columns) THEN df.rows
    ELSE LET line29 == { r \in df.rows : r.line = 29 }
         IN  IF line29 # {} THEN line29 ELSE { r \in df.rows : r.line = 1 }

\* The column, or the sum of columns, load_enrollment_year reads as total.
TotalColumn(columns) ==
    IF In("efrace15", columns) /\ In("efrace16", columns) THEN "efrace15+efrace16"
    ELSE IF In("eftotlt", columns) THEN "eftotlt"
    ELSE None

\* df['total'] of a row.
Total(columns, r) ==
    IF TotalColumn(columns) = "efrace15+efrace16"
    THEN fillna0(to_numeric(r.efrace15)) + fillna0(to_numeric(r.efrace16))
    ELSE fillna0(to_numeric(r.eftotlt))

\* A filter that keeps every row.
Positive_all(agg) == agg

\* agg[agg['total'] > 0]
Positive(agg) == { a \in agg : a.total > 0 }

\* load_enrollment_year(year): the value returned, the column resolved, the
\* rows handed to INSERT INTO enrollment_historic, and the exception caught.
load_enrollment_year(y, dir) ==
    LET nothing == [ ret |-> 0, total_col |-> None, values |-> {}, error |-> None ]
        ef_file == find_enrollment_file(y, dir)
    IN  IF ef_file = None THEN nothing
        ELSE IF ExtractRaises(dir[ef_file]) THEN [ nothing EXCEPT !.error = IndexError ]
        ELSE LET df == Lowered(read_zip_csv(dir[ef_file]))
                 lines == TotalLines(df)
                 col == TotalColumn(df.columns)
                 agg == Positive({ [ unitid |-> r.unitid, total |-> Total(df.columns, r) ] :
                                   r \in lines })
                 values == { [ unitid |-> a.unitid, year |-> y,
                               total_enrollment |-> a.total ] : a \in agg }
             IN  IF ~In("unitid", df.columns) THEN nothing
                 ELSE IF In("line", df.columns) /\ lines = {} THEN nothing
                 ELSE IF col = None THEN nothing
                 ELSE IF \E a \in agg : ~notna(a.unitid)
                      THEN [ nothing EXCEPT !.total_col = col, !.error = ValueError ]
                 ELSE [ ret |-> Cardinality(values), total_col |-> col,
                        values |-> values, error |-> None ]

\* RAW_DIR with the enrollment file of the year: none, an archive with no .csv member, or an
\* archive whose csv has some of the columns, in the file's case and order,
\* one row of unit 1 and one row of unit 2.
EfNames == << "unitid", "line", "efrace15", "efrace16", "eftotlt" >>

Reverse(s) == [ i \in 1..Len(s) |-> s[Len(s) + 1 - i] ]

EfFrame(present, up, rev, line, a, b, t) ==
    LET named == SelectSeq(EfNames, LAMBDA c : c \in present)
        cased == [ i \in 1..Len(named) |-> IF up THEN upper(named[i]) ELSE named[i] ]
        full == { [ unitid |-> 1, line |-> line, efrace15 |-> a, efrace16 |-> b,
                    eftotlt |-> t ],
                  [ unitid |-> 2, line |-> 29, efrace15 |-> 3, efrace16 |-> NullInt,
                    eftotlt |-> 9 ] }
    IN  [ columns |-> IF rev THEN Reverse(cased) ELSE cased,
          rows |-> { [ c \in { cased[i] : i \in 1..Len(cased) } |-> r[lower(c)] ] :
                     r \in full } ]

EfDirs ==
    { EmptyStaging, "EF1998_A.zip" :> << [ csv |-> FALSE, rows |-> {} ] >> }
    \cup { "EF1998A.zip" :> Csv(EfFrame(present, up, rev, line, a, b, t)) :
             present \in SUBSET { EfNames[i] : i \in 1..Len(EfNames) },
             up \in BOOLEAN, rev \in BOOLEAN, line \in { 29, 1 },
             a \in Cells, b \in Cells, t \in { NullInt, 7 } }

HistoricYear == 1998

\* The archives read: at most MaxMembers members, each a csv or not.
MaxMembers == 2

Members ==
    { [ csv |-> TRUE, rows |-> { [ unitid |-> 1 ] } ],
      [ csv |-> TRUE, rows |-> { [ unitid |-> 2 ] } ],
      [ csv |-> FALSE, rows |-> {} ] }

Archives == BoundedSeq(Members, MaxMembers)

\* csv_name = [n for n in namelist() if n.endswith('.csv')][0], and the read
\* of that member: the exception raised, or the table returned.
ReadArchive(members) ==
    IF ExtractRaises(members) THEN [ error |-> IndexError, df |-> {} ]
    ELSE [ error |-> None, df |-> read_zip_csv(members) ]

InitHistoric ==
    /\ AtRest
    /\ \/ \E h \in Headers : call = [ fn |-> "columns", arg |-> h ]
       \/ \E dir \in EfDirs : call = [ fn |-> "RAW_DIR", arg |-> dir ]
       \/ \E z \in Archives : call = [ fn |-> "zip_path", arg |-> z ]

GetTotalEnrollmentColumn ==
    /\ call.fn = "columns"
    /\ call' = [ fn |-> "get_total_enrollment_column", arg |-> call.arg,
                 out |-> get_total_enrollment_column(call.arg) ]
    /\ UNCHANGED Others

LoadEnrollmentYear ==
    /\ call.fn = "RAW_DIR"
    /\ call' = [ fn |-> "load_enrollment_year", arg |-> call.arg,
                 out |-> load_enrollment_year(HistoricYear, call.arg) ]
    /\ UNCHANGED Others

ReadZipCsv ==
    /\ call.fn = "zip_path"
    /\ call' = [ fn |-> "read_zip_csv", arg |-> call.arg, out |-> ReadArchive(call.arg) ]
    /\ UNCHANGED Others

ExtractCsvFromZip ==
    /\ call.fn = "zip_path"
    /\ call' = [ fn |-> "extract_csv_from_zip", arg |-> call.arg,
                 out |-> IF ExtractRaises(call.arg) THEN [ error |-> IndexError, df |-> {} ]
                         ELSE [ error |-> None, df |-> extract_csv_from_zip(call.arg) ] ]
    /\ UNCHANGED Others

NextHistoric ==
    \/ GetTotalEnrollmentColumn
    \/ LoadEnrollmentYear
    \/ ReadZipCsv
    \/ ExtractCsvFromZip

SpecHistoric == InitHistoric /\ [][NextHistoric]_vars

(***************************************************************************)
(* Numeric fields whose cell is empty or is not a number: the graduation   *)
(* rates of load_historic.py, and the statements of the transforms over a  *)
(* staging table that holds such a cell.                                   *)
(***************************************************************************)
KeyError == "'grtype'"

\* The values of the line column, as the characters of the text.
Line10 == << "1", "0" >>

Line10Padded == << "1", "0", " " >>

Line18A == << "1", "8", "A" >>

find_gr_file(y, dir) ==
    FirstExisting(<< "GR" \o ToString(y) \o ".zip", "gr" \o ToString(y) \o ".zip" >>, dir)

\* (completers / cohort_size * 100).round(2), in hundredths of a percent.
grad_rate(completers, cohort_size) ==
    IF ~notna(completers) \/ ~notna(cohort_size) THEN NullInt
    ELSE (2 * 10000 * completers + cohort_size) \div (2 * cohort_size)

\* cohort_df.merge(completers_df, on='unitid', how='left'), with the two
\* columns made numeric.
MergeLeft(cohort_df, completers_df, total_col) ==
    UNION { IF \E k \in completers_df : k.unitid = c.unitid
            THEN { [ unitid |-> c.unitid, cohort_size |-> to_numeric(c[total_col]),
                     completers |-> to_numeric(k[total_col]) ] :
                   k \in { x \in completers_df : x.unitid = c.unitid } }
            ELSE { [ unitid |-> c.unitid, cohort_size |-> to_numeric(c[total_col]),
                     completers |-> NullInt ] } : c \in cohort_df }

\* load_graduation_rates_year(year): the value returned, the rows handed to
\* INSERT INTO graduation_rates_historic, and the exception caught.
load_graduation_rates_year(y, dir) ==
    LET nothing == [ ret |-> 0, values |-> {}, error |-> None ]
        gr_file == find_gr_file(y, dir)
    IN  IF gr_file = None THEN nothing
        ELSE IF ExtractRaises(dir[gr_file]) THEN [ nothing EXCEPT !.error = IndexError ]
        ELSE LET df == Lowered(read_zip_csv(dir[gr_file]))
                 total_col == IF In("grtotlt", df.columns) THEN "grtotlt"
                              ELSE IF In("grrace24", df.columns) THEN "grrace24"
                              ELSE None
                 cohort_df == { r \in df.rows : r.grtype = 6 /\ strip(r.line) = Line10 }
                 completers_df == { r \in df.rows : r.grtype = 12 /\ strip(r.line) = Line18A }
                 result == { r \in MergeLeft(cohort_df, completers_df, total_col) :
                             notna(r.cohort_size) /\ r.cohort_size > 0 }
                 values == { [ unitid |-> r.unitid, year |-> y,
                               cohort_size |-> r.cohort_size, completers |-> r.completers,
                               grad_rate_150pct |-> grad_rate(r.completers, r.cohort_size) ] :
                             r \in result }
             IN  IF ~In("unitid", df.columns) THEN nothing
                 ELSE IF total_col = None THEN nothing
                 ELSE IF ~In("grtype", df.columns) \/ ~In("line", df.columns)
                      THEN [ nothing EXCEPT !.error = KeyError ]
                 ELSE IF cohort_df = {} THEN nothing
                 ELSE IF \E r \in result : ~notna(r.unitid)
                      THEN [ nothing EXCEPT !.error = ValueError ]
                 ELSE [ ret |-> Cardinality(values), values |-> values, error |-> None ]

\* RAW_DIR with the graduation rates file of the year: a cohort row, and a
\* row of completers or none.
GrFrame(total_col, u, line, cohort, has_completers, completers) ==
    [ columns |-> << "unitid", "grtype", "line", total_col >>,
      rows |-> { [ unitid |-> u, grtype |-> 6, line |-> line ] @@ (total_col :> cohort) }
               \cup (IF has_completers
                     THEN { [ unitid |-> u, grtype |-> 12, line |-> Line18A ]
                            @@ (total_col :> completers) }
                     ELSE {}) ]

GrDirs ==
    { EmptyStaging }
    \cup { "GR1998.zip" :> Csv(GrFrame(total_col, u, line, cohort, has, completers)) :
             total_col \in { "grtotlt", "grrace24", "grtotlm" }, u \in { 1, NullInt },
             line \in { Line10, Line10Padded }, cohort \in { NullInt, Dot, 0, 4 },
             has \in BOOLEAN, completers \in { NullInt, Dot, 1 } }

\* The staging tables the loaders left, with the cells of the numeric fields
\* of adm2023 and the latitude of hd2023 as given.
CoerceStaging(v, lat) ==
    [ t \in DOMAIN Loaded.staging |->
        CASE t = "adm2023" -> { AdmRow(1, v), AdmRow(2, 21) }
          [] t = "hd2023" -> { HdRow(1, "Alpha State", lat) }
          [] OTHER -> Loaded.staging[t] ]

InitCoerce ==
    \/ /\ AtRest
       /\ \E dir \in GrDirs : call = [ fn |-> "RAW_DIR", arg |-> dir ]
    \/ /\ \E v \in { 11, NullInt, Dot }, lat \in { 39, NullInt, Dot } :
             staging = CoerceStaging(v, lat)
       /\ etl_run = LoadedRuns
       /\ etl_table_log = Loaded.log
       /\ ended = LoadedEnded
       /\ applied = << 1, 1, 1 >>
       /\ institution = EmptyBag
       /\ facts = [ t \in FactTables |-> EmptyBag ]
       /\ script = "none"
       /\ pc = "idle"
       /\ year = 0
       /\ idx = 0
       /\ run_id = 0
       /\ conn = "closed"
       /\ rets = << >>
       /\ faults = 0
       /\ snap = [ t \in FactTables |-> EmptyBag ]
       /\ nruns = 0
       /\ call = NoCall

LoadGraduationRatesYear ==
    /\ call.fn = "RAW_DIR"
    /\ call' = [ fn |-> "load_graduation_rates_year", arg |-> call.arg,
                 out |-> load_graduation_rates_year(HistoricYear, call.arg) ]
    /\ UNCHANGED Others

\* The graduation rates of one historic year, or the transforms of 2023 when
\* no statement fails for a reason outside the data.
NextCoerce ==
    \/ LoadGraduationRatesYear
    \/ TransformStart("transform_year", 2023) /\ call = NoCall
    \/ TransformStart("transform_2023", 2023) /\ call = NoCall
    \/ TransformSurvey /\ faults' = faults
    \/ TransformComplete
    \/ TransformVerify /\ faults' = faults

SpecCoerce == InitCoerce /\ [][NextCoerce]_vars

(***************************************************************************)
(* extract_csv_from_zip of load_year.py and load_2023.py: the cleaning of  *)
(* the column names.  A name is the sequence of its characters; "uFEFF" is *)
(* the BOM character, "xEF", "xBB", "xBF" are the three characters the     *)
(* bytes of the UTF-8 BOM give when they are read as latin-1.              *)
(***************************************************************************)
MaxLead == 2

MaxPad == 1

BomChar == << "uFEFF" >>

BomBytes == << "xEF", "xBB", "xBF" >>

\* str.replace(old, ""): every occurrence, left to right, without overlap.
RECURSIVE remove(_, _)
remove(s, old) ==
    IF Len(s) < Len(old) THEN s
    ELSE IF SubSeq(s, 1, Len(old)) = old
         THEN remove(SubSeq(s, Len(old) + 1, Len(s)), old)
         ELSE << s[1] >> \o remove(Tail(s), old)

\* A replace that leaves the name as it is.
remove_nothing(s, old) == s

\* c.replace(BOM character, ""), then the two replaces of its three bytes.
remove_bom(s, old) == remove(s, old)

\* str.lower(), character by character.
LowerChar(ch) ==
    CASE ch = "U" -> "u"
      [] ch = "N" -> "n"
      [] ch = "I" -> "i"
      [] ch = "T" -> "t"
      [] ch = "D" -> "d"
      [] ch = "M" -> "m"
      [] OTHER -> ch

lowercase(s) == [ i \in 1..Len(s) |-> LowerChar(s[i]) ]

\* The name a column gets: the three replaces, strip, lower.
CleanColumn(c) ==
    lowercase(strip(remove_bom(remove_bom(remove_bom(c, BomChar), BomBytes), BomBytes)))

CleanColumns(columns) == [ i \in 1..Len(columns) |-> CleanColumn(columns[i]) ]

\* The names of the files: a name as it is printed, and as it is expected.
ColumnTexts ==
    { [ raw |-> << "U", "N", "I", "T", "I", "D" >>,
        clean |-> << "u", "n", "i", "t", "i", "d" >> ],
      [ raw |-> << "u", "n", "i", "t", "i", "d" >>,
        clean |-> << "u", "n", "i", "t", "i", "d" >> ],
      [ raw |-> << "I", "n", "s", "t", "N", "M" >>,
        clean |-> << "i", "n", "s", "t", "n", "m" >> ],
      [ raw |-> << "I", "n", "s", "t", " ", "N", "M" >>,
        clean |-> << "i", "n", "s", "t", " ", "n", "m" >> ] }

Spaces(n) == [ i \in 1..n |-> " " ]

RECURSIVE Concat(_)
Concat(ss) == IF ss = << >> THEN << >> ELSE Head(ss) \o Concat(Tail(ss))

\* A first column as a file may hold it: byte-order marks in front, in any
\* rendering, and whitespace around the name; then the column InstNM.
ColumnShapes ==
    [ lead : BoundedSeq({ BomChar, BomBytes }, MaxLead), before : 0..MaxPad,
      left : 0..MaxPad, right : 0..MaxPad, text : ColumnTexts,
      script : { "load_year", "load_2023" } ]

RawColumns(sh) ==
    << Spaces(sh.before) \o Concat(sh.lead) \o Spaces(sh.left) \o sh.text.raw
         \o Spaces(sh.right),
       << "I", "n", "s", "t", "N", "M" >> >>

InitColumns ==
    /\ AtRest
    /\ \E sh \in ColumnShapes :
          call = [ fn |-> "read_csv", arg |-> [ shape |-> sh, columns |-> RawColumns(sh) ] ]

\* df.columns = [...] of extract_csv_from_zip.
ExtractColumns ==
    /\ call.fn = "read_csv"
    /\ call' = [ fn |-> "extract_csv_from_zip", arg |-> call.arg,
                 out |-> CleanColumns(call.arg.columns) ]
    /\ UNCHANGED Others

SpecColumns == InitColumns /\ [][ExtractColumns]_vars

(***************************************************************************)
(* load_historic.py: the finders of a year's files in RAW_DIR, and the     *)
(* loaders that call them.                                                 *)
(***************************************************************************)
MaxFiles == 2

enrollment_patterns(y) ==
    << "EF" \o ToString(y) \o "A.zip", "EF" \o ToString(y) \o "_A.zip",
       "ef" \o ToString(y) \o "a.zip", "ef" \o ToString(y) \o "_a.zip" >>

hd_patterns(y) == << "HD" \o ToString(y) \o ".zip", "hd" \o ToString(y) \o ".zip" >>

fa_patterns(y) == << "FA" \o ToString(y) \o "HD.zip", "fa" \o ToString(y) \o "hd.zip" >>

ic_patterns(y) == << "IC" \o ToString(y) \o ".zip", "ic" \o ToString(y) \o ".zip" >>

completions_patterns(y) ==
    << "C" \o ToString(y) \o "_A.zip", "C" \o ToString(y) \o "_CIP.zip",
       "C" \o ToString(y) \o "_4ORMORE_CIP.zip", "c" \o ToString(y) \o "_a.zip" >>

gr_patterns(y) == << "GR" \o ToString(y) \o ".zip", "gr" \o ToString(y) \o ".zip" >>

\* The last of the names that exists.
LastExisting(patterns, dir) ==
    LET found == SelectSeq(patterns, LAMBDA p : p \in DOMAIN dir)
    IN  IF found # << >> THEN found[Len(found)] ELSE None

\* for p in patterns: if os.path.exists(path): return path
FirstMatch(patterns, dir) == FirstExisting(patterns, dir)

find_ic_file(y, dir) ==
    IF FirstMatch(hd_patterns(y), dir) # None THEN FirstMatch(hd_patterns(y), dir)
    ELSE IF FirstMatch(fa_patterns(y), dir) # None THEN FirstMatch(fa_patterns(y), dir)
    ELSE FirstMatch(ic_patterns(y), dir)

find_completions_file(y, dir) == FirstMatch(completions_patterns(y), dir)

\* The first of the columns a loader looks for that the frame has.
FirstColumn(names, columns) ==
    LET found == SelectSeq(names, LAMBDA col : In(col, columns))
    IN  IF found # << >> THEN found[1] ELSE None

\* str(cip)[:2].zfill(2)
cip_2digit(cip) == zfill(SubSeq(cip, 1, IF Len(cip) < 2 THEN Len(cip) ELSE 2), 2)

RECURSIVE SumOf(_, _)
SumOf(rows, col) ==
    IF rows = {} THEN 0
    ELSE LET r == CHOOSE x \in rows : TRUE
         IN  r[col] + SumOf(rows \ { r }, col)

\* load_completions_year(year): the value returned, the column counted, the
\* rows handed to INSERT INTO completions_historic, and the exception caught.
load_completions_year(y, dir) ==
    LET nothing == [ ret |-> 0, count_col |-> None, values |-> {}, error |-> None ]
        comp_file == find_completions_file(y, dir)
    IN  IF comp_file = None THEN nothing
        ELSE IF ExtractRaises(dir[comp_file]) THEN [ nothing EXCEPT !.error = IndexError ]
        ELSE LET df == Lowered(read_zip_csv(dir[comp_file]))
                 cip_col == FirstColumn(<< "cipcode", "cip", "majornum" >>, df.columns)
                 found == FirstColumn(<< "ctotalt", "crace15", "crace16", "grand_total",
                                         "total" >>, df.columns)
                 summed == found = None /\ In("crace15", df.columns)
                                        /\ In("crace16", df.columns)
                 count_col == IF summed THEN "total" ELSE found
                 counted == { [ unitid |-> r.unitid, cip_2digit |-> cip_2digit(r[cip_col]),
                                cip |-> r[cip_col],
                                count |-> IF summed
                                          THEN fillna0(to_numeric(r.crace15))
                                               + fillna0(to_numeric(r.crace16))
                                          ELSE fillna0(to_numeric(r[count_col])) ] :
                              r \in df.rows }
                 groups == { [ unitid |-> c.unitid, cip_2digit |-> c.cip_2digit ] :
                             c \in counted }
                 agg == { [ unitid |-> g.unitid, cip_2digit |-> g.cip_2digit,
                            count |-> SumOf({ c \in counted : /\ c.unitid = g.unitid
                                                              /\ c.cip_2digit = g.cip_2digit },
                                            "count") ] : g \in groups }
                 values == { [ unitid |-> a.unitid, year |-> y, cip_2digit |-> a.cip_2digit,
                               total_completions |-> a.count ] :
                             a \in { x \in agg : x.count > 0 } }
             IN  IF ~In("unitid", df.columns) THEN nothing
                 ELSE IF cip_col = None THEN nothing
                 ELSE IF count_col = None THEN nothing
                 ELSE [ ret |-> Cardinality(values), count_col |-> count_col,
                        values |-> values, error |-> None ]

\* RAW_DIR with at most MaxFiles of the files a finder looks for, each an
\* archive whose csv has no column.
FinderNames(y) ==
    LET all == enrollment_patterns(y) \o hd_patterns(y) \o fa_patterns(y)
               \o ic_patterns(y) \o completions_patterns(y) \o gr_patterns(y)
    IN  { all[i] : i \in 1..Len(all) }

FinderDirs ==
    { [ n \in S |-> Csv([ columns |-> << >>, rows |-> {} ]) ] :
        S \in { T \in SUBSET FinderNames(HistoricYear) : Cardinality(T) <= MaxFiles } }

\* RAW_DIR with the completions file of the year: two rows of unit 1 in the
\* same 2-digit CIP family, with some of the count columns.
Cip0101 == << "0", "1", ".", "0", "1", "0", "1" >>

Cip0102 == << "0", "1", ".", "0", "1", "0", "2" >>

CompFrame(present, a, b) ==
    LET named == SelectSeq(<< "unitid", "cipcode", "ctotalt", "crace15", "crace16" >>,
                           LAMBDA c : c \in present \cup { "unitid", "cipcode" })
        full == { [ unitid |-> 1, cipcode |-> Cip0101, ctotalt |-> 7, crace15 |-> a,
                    crace16 |-> b ],
                  [ unitid |-> 1, cipcode |-> Cip0102, ctotalt |-> 6, crace15 |-> 2,
                    crace16 |-> 3 ] }
    IN  [ columns |-> named,
          rows |-> { [ c \in { named[i] : i \in 1..Len(named) } |-> r[c] ] : r \in full } ]

CompDirs ==
    { "C1998_A.zip" :> Csv(CompFrame(present, a, b)) :
        present \in SUBSET { "ctotalt", "crace15", "crace16" }, a \in Cells, b \in Cells }

InitLoaders ==
    /\ AtRest
    /\ \E dir \in FinderDirs \cup CompDirs : call = [ fn |-> "RAW_DIR", arg |-> dir ]

Finder(name, path) ==
    /\ call.fn = "RAW_DIR"
    /\ call' = [ fn |-> name, arg |-> call.arg, out |-> path ]
    /\ UNCHANGED Others

FindEnrollmentFile ==
    Finder("find_enrollment_file", find_enrollment_file(HistoricYear, call.arg))

FindIcFile == Finder("find_ic_file", find_ic_file(HistoricYear, call.arg))

FindCompletionsFile ==
    Finder("find_completions_file", find_completions_file(HistoricYear, call.arg))

FindGrFile == Finder("find_gr_file", find_gr_file(HistoricYear, call.arg))

LoadCompletionsYear ==
    /\ call.fn = "RAW_DIR"
    /\ call' = [ fn |-> "load_completions_year", arg |-> call.arg,
                 out |-> load_completions_year(HistoricYear, call.arg) ]
    /\ UNCHANGED Others

NextLoaders ==
    \/ FindEnrollmentFile
    \/ FindIcFile
    \/ FindCompletionsFile
    \/ FindGrFile
    \/ LoadEnrollmentYear
    \/ LoadCompletionsYear
    \/ LoadGraduationRatesYear

SpecLoaders == InitLoaders /\ [][NextLoaders]_vars

(***************************************************************************)
(* pipeline.py and migrate_power_plants.py: run(dry_run), batch by batch.  *)
(* call holds the activation of run: its arguments, the rows the extractor *)
(* has yielded so far, the counters of stats, the two tables of the        *)
(* database, and the numbers of transform and load calls made.  The        *)
(* BasePipeline that runs is one whose transformers and loaders are those  *)
(* of the power plants, its loaders inserting with _bulk_insert.           *)
(***************************************************************************)
MaxRows == 3

MaxBatch == 2

GENERATION_YEARS == << 2013, 2014, 2015, 2016, 2017, 2018, 2019 >>

FUEL_TYPE_MAP == { "Biomass", "Coal", "Cogeneration", "Gas", "Geothermal", "Hydro",
                   "Nuclear", "Oil", "Other", "Petcoke", "Solar", "Storage", "Waste",
                   "Wave and Tidal", "Wind" }

\* The rows of the source file: the capacity is a number or empty, the fuel is
\* mapped or not, generation is reported for some years; latitude and
\* longitude are numbers in every row.
PlantRows ==
    [ capacity_mw : { NullInt, 5 }, primary_fuel : { "Coal", "Lignite" },
      reported : { {}, { 2013, 2019 } } ]

SourceFiles == BoundedSeq(PlantRows, MaxRows)

\* The rows of a file with their gppd_idnr, here the number of the line.
Numbered(rows) ==
    [ i \in 1..Len(rows) |->
        [ gppd_idnr |-> i, capacity_mw |-> rows[i].capacity_mw,
          primary_fuel |-> rows[i].primary_fuel, reported |-> rows[i].reported ] ]

\* pd.read_csv(chunksize=batch_size): the chunk that starts after pos rows.
Chunk(rows, pos, batch_size) ==
    SubSeq(rows, pos + 1, IF pos + batch_size < Len(rows) THEN pos + batch_size ELSE Len(rows))

Valid(row) == notna(row.capacity_mw) /\ row.primary_fuel \in FUEL_TYPE_MAP

transform_power_plants(df) == SelectSeq(df, Valid)

RECURSIVE transform_generation(_)
transform_generation(df) ==
    IF df = << >> THEN << >>
    ELSE LET row == Head(df)
             years == SelectSeq(GENERATION_YEARS, LAMBDA y : y \in row.reported)
         IN  [ k \in 1..Len(years) |->
                 [ gppd_idnr |-> row.gppd_idnr, year |-> years[k], generation_gwh |-> 1 ] ]
             \o transform_generation(Tail(df))

\* to_sql("power_plants", if_exists="append"): the table numbers its rows.
load_power_plants(power_plants, df) ==
    power_plants \o [ k \in 1..Len(df) |->
                        [ id |-> Len(power_plants) + k, gppd_idnr |-> df[k].gppd_idnr,
                          capacity_mw |-> df[k].capacity_mw,
                          primary_fuel |-> df[k].primary_fuel ] ]

\* id_map = {row[1]: row[0] for row in result}: the last row of a gppd_idnr.
IdOf(power_plants, gppd_idnr) ==
    LET at == { k \in 1..Len(power_plants) : power_plants[k].gppd_idnr = gppd_idnr }
    IN  IF at = {} THEN NullInt
        ELSE power_plants[CHOOSE k \in at : \A j \in at : j <= k].id

\* The generation records whose plant is in power_plants, with its id.
load_generation(power_plants, generation, df) ==
    LET known == SelectSeq(df, LAMBDA g : IdOf(power_plants, g.gppd_idnr) # NullInt)
    IN  generation \o [ k \in 1..Len(known) |->
                          [ power_plant_id |-> IdOf(power_plants, known[k].gppd_idnr),
                            year |-> known[k].year,
                            generation_gwh |-> known[k].generation_gwh ] ]

\* A run that loads whatever dry_run is.
ShouldLoad_always(dry_run) == TRUE

\* if not dry_run:
ShouldLoad(dry_run) == ~dry_run

\* One turn of "for raw_df in self.extract()" of PowerPlantETL.run.
PowerPlantBatch(c) ==
    LET raw_df == Chunk(Numbered(c.arg.rows), c.pos, c.arg.batch_size)
        plants_df == transform_power_plants(raw_df)
        gen_df == transform_generation(raw_df)
        loads == ShouldLoad(c.arg.dry_run)
        plants == IF loads THEN load_power_plants(c.power_plants, plants_df)
                  ELSE c.power_plants
        gen == IF loads /\ gen_df # << >>
               THEN load_generation(plants, c.generation, gen_df)
               ELSE c.generation
    IN  [ c EXCEPT !.pos = c.pos + Len(raw_df),
                   !.transforms = c.transforms + 2,
                   !.loads = IF loads THEN c.loads + 2 ELSE c.loads,
                   !.power_plants = plants,
                   !.generation = gen,
                   !.stats = [ plants_extracted |-> c.stats.plants_extracted + Len(raw_df),
                               plants_loaded |-> c.stats.plants_loaded
                                                 + (Len(plants) - Len(c.power_plants)),
                               generation_records |-> c.stats.generation_records
                                                      + (Len(gen) - Len(c.generation)),
                               errors |-> c.stats.errors + (Len(raw_df) - Len(plants_df)) ] ]

\* BaseLoader._bulk_insert: the rows appended as they are.
bulk_insert(table, df) == table \o df

\* One turn of "for batch in extractor.extract()" of BasePipeline.run.
BasePipelineBatch(c) ==
    LET batch == Chunk(Numbered(c.arg.rows), c.pos, c.arg.batch_size)
        plants_df == transform_power_plants(batch)
        gen_df == transform_generation(batch)
        loads == ShouldLoad(c.arg.dry_run)
        load1 == loads /\ plants_df # << >>
        load2 == loads /\ gen_df # << >>
    IN  [ c EXCEPT !.pos = c.pos + Len(batch),
                   !.transforms = c.transforms + 2,
                   !.loads = c.loads + (IF load1 THEN 1 ELSE 0) + (IF load2 THEN 1 ELSE 0),
                   !.power_plants = IF load1 THEN bulk_insert(c.power_plants, plants_df)
                                    ELSE c.power_plants,
                   !.generation = IF load2 THEN bulk_insert(c.generation, gen_df)
                                  ELSE c.generation,
                   !.stats = [ extracted |-> c.stats.extracted + Len(batch),
                               transformed |-> c.stats.transformed + Len(plants_df)
                                               + Len(gen_df),
                               loaded |-> c.stats.loaded
                                          + (IF load1 THEN Len(plants_df) ELSE 0)
                                          + (IF load2 THEN Len(gen_df) ELSE 0),
                               errors |-> 0 ] ]

InitPipeline ==
    /\ AtRest
    /\ \E rows \in SourceFiles, dry_run \in BOOLEAN, batch_size \in 1..MaxBatch,
          pipeline \in { "BasePipeline", "PowerPlantETL" } :
          call = [ fn |-> "run",
                   arg |-> [ pipeline |-> pipeline, dry_run |-> dry_run,
                             batch_size |-> batch_size, rows |-> rows ],
                   pos |-> 0, transforms |-> 0, loads |-> 0,
                   power_plants |-> << >>, generation |-> << >>, returned |-> FALSE,
                   stats |-> IF pipeline = "BasePipeline"
                             THEN [ extracted |-> 0, transformed |-> 0, loaded |-> 0,
                                    errors |-> 0 ]
                             ELSE [ plants_extracted |-> 0, plants_loaded |-> 0,
                                    generation_records |-> 0, errors |-> 0 ] ]

BasePipelineRunBatch ==
    /\ call.fn = "run" /\ call.arg.pipeline = "BasePipeline"
    /\ ~call.returned /\ call.pos < Len(call.arg.rows)
    /\ call' = BasePipelineBatch(call)
    /\ UNCHANGED Others

PowerPlantRunBatch ==
    /\ call.fn = "run" /\ call.arg.pipeline = "PowerPlantETL"
    /\ ~call.returned /\ call.pos < Len(call.arg.rows)
    /\ call' = PowerPlantBatch(call)
    /\ UNCHANGED Others

\* The extractor is exhausted: return self.stats
RunReturns ==
    /\ call.fn = "run"
    /\ ~call.returned /\ call.pos = Len(call.arg.rows)
    /\ call' = [ call EXCEPT !.returned = TRUE ]
    /\ UNCHANGED Others

NextPipeline ==
    \/ BasePipelineRunBatch
    \/ PowerPlantRunBatch
    \/ RunReturns

SpecPipeline == InitPipeline /\ [][NextPipeline]_vars

(***************************************************************************)
(* load_year run again and again over the same archives, the staging       *)
(* tables as PostgreSQL holds them: a table is a bag of rows.  call holds  *)
(* the tables, the year being loaded, the position in the files of the     *)
(* year that exist, the runs made of each year and the table entries.      *)
(***************************************************************************)
MaxReloads == 3

\* A creation that keeps a table that is already there.
create_table_if_missing(tables, t) ==
    [ n \in DOMAIN tables \cup { t } |-> IF n \in DOMAIN tables THEN tables[n] ELSE EmptyBag ]

\* create_table_from_df: DROP TABLE IF EXISTS t; CREATE TABLE t (...)
create_table_from_df(tables, t) ==
    [ n \in DOMAIN tables \cup { t } |-> IF n = t THEN EmptyBag ELSE tables[n] ]

\* copy_df_to_table: COPY t FROM STDIN adds the rows of df to the table.
copy_df_to_table(tables, t, df) == [ tables EXCEPT ![t] = @ (+) SetToBag(df) ]

InitReload ==
    /\ AtRest
    /\ call = [ fn |-> "load_year", year |-> 0, pos |-> 0, tables |-> EmptyStaging,
                runs |-> [ y \in Years |-> 0 ], log |-> << >> ]

\* load_year(y) starts: the run is recorded and the loop is entered.
ReloadStart(y) ==
    /\ call.fn = "load_year"
    /\ call.year = 0
    /\ call.runs[2022] + call.runs[2023] < MaxReloads
    /\ call' = [ call EXCEPT !.year = y, !.pos = 1, !.runs[y] = @ + 1 ]
    /\ UNCHANGED Others

\* load_file for the next file of the year that exists.
ReloadFile ==
    /\ call.fn = "load_year"
    /\ call.year # 0
    /\ call.pos <= Len(ExistingFiles("load_year", call.year))
    /\ LET f == ExistingFiles("load_year", call.year)[call.pos]
       IN  IF ExtractRaises(RawDir[f.zip])
           THEN call' = [ call EXCEPT !.pos = @ + 1,
                             !.log = Append(@, [ table_name |-> f.table, rows_affected |-> 0,
                                                 status |-> "failed" ]) ]
           ELSE LET df == extract_csv_from_zip(RawDir[f.zip])
                IN  call' = [ call EXCEPT !.pos = @ + 1,
                                 !.tables = copy_df_to_table(
                                                create_table_from_df(@, f.table), f.table, df),
                                 !.log = Append(@, [ table_name |-> f.table,
                                                     rows_affected |-> Cardinality(df),
                                                     status |-> "completed" ]) ]
    /\ UNCHANGED Others

\* The loop is over: the run is completed and load_year returns.
ReloadReturns ==
    /\ call.fn = "load_year"
    /\ call.year # 0
    /\ call.pos > Len(ExistingFiles("load_year", call.year))
    /\ call' = [ call EXCEPT !.year = 0, !.pos = 0 ]
    /\ UNCHANGED Others

NextReload ==
    \/ \E y \in Years : ReloadStart(y)
    \/ ReloadFile
    \/ ReloadReturns

SpecReload == InitReload /\ [][NextReload]_vars

(***************************************************************************)
(* transform_year(year) as a whole, when no statement fails: the           *)
(* normalized tables it leaves, from the tables db it found.               *)
(***************************************************************************)
EmptyDb == [ institution |-> EmptyBag, facts |-> [ t \in FactTables |-> EmptyBag ] ]

transform_year(y, st, db) ==
    LET hd == SourceTable("transform_year", "institution", y, st)
        inst == IF table_exists(st, hd)
                THEN InstitutionAfter("transform_year", "institution", y, st[hd],
                                      db.institution)
                ELSE db.institution
    IN  [ institution |-> inst,
          facts |-> [ t \in FactTables |->
                        LET source == SourceTable("transform_year", t, y, st)
                        IN  IF table_exists(st, source)
                            THEN Upsert(t, db.facts[t],
                                        SelectRows("transform_year", t, y, st[source], inst))
                            ELSE db.facts[t] ] ]

(***************************************************************************)
(* Properties                                                              *)
(***************************************************************************)
LastRun == Len(etl_run)

Finished(r) == ended[r].how \in { "returned", "raised" }

\* The indexes of the table entries of run r.
EntriesOf(r) == { i \in 1..Len(etl_table_log) : etl_table_log[i].run_id = r }

HasEntry(r, table_name) ==
    \E i \in EntriesOf(r) : etl_table_log[i].table_name = table_name

Transforms == { "transform_year", "transform_2023" }

\* C1: every table entry created by etl_log_table_start during load_year,
\* load_2023, transform_year or transform_2023 is "completed" or "failed", never
\* "running", once the run function has returned or raised.
C1_EntriesClosedWhenRunEnds ==
    \A r \in 1..Len(etl_run) :
        Finished(r) =>
            \A i \in EntriesOf(r) : etl_table_log[i].status \in { "completed", "failed" }

\* C2: in transform_year, when one survey's transform raises, the surveys after
\* it are still executed: once the run is over, every survey whose source
\* table exists has a table entry of the run.
C2_LaterSurveysStillRun ==
    ( script = "none" /\ LastRun > 0 /\ ended[LastRun].script = "transform_year" ) =>
        \A i \in 1..Len(TransformSurveys) :
            SourceTable("transform_year", TransformSurveys[i],
                        etl_run[LastRun].data_year, staging) \in DOMAIN staging
            => HasEntry(LastRun, TransformSurveys[i])

\* The unitids of the directory archive HD{y}.zip.
DirectoryIds(y) ==
    IF ("HD" \o ToString(y) \o ".zip") \in DOMAIN RawDir
       /\ ~ExtractRaises(RawDir["HD" \o ToString(y) \o ".zip"])
    THEN { r.unitid : r \in extract_csv_from_zip(RawDir["HD" \o ToString(y) \o ".zip"]) }
    ELSE {}

UniqueKeys(t, table) ==
    /\ \A row \in BagToSet(table) : CopiesIn(row, table) = 1
    /\ \A a, b \in BagToSet(table) : Key(t, a) = Key(t, b) => a = b

\* The last two runs were transform_year for the same year and both completed.
RanTwice ==
    /\ script = "none"
    /\ LastRun >= 2
    /\ ended[LastRun].script = "transform_year"
    /\ ended[LastRun - 1].script = "transform_year"
    /\ etl_run[LastRun].data_year = etl_run[LastRun - 1].data_year
    /\ etl_run[LastRun].status = "completed"
    /\ etl_run[LastRun - 1].status = "completed"

\* C4: running transform_year twice for the same year leaves each fact table
\* with the rows and values the first run left, and no key twice.
C4_RerunIdempotent ==
    RanTwice =>
        \A t \in FactTables : facts[t] = snap[t] /\ UniqueKeys(t, facts[t])

C4_Witness ==
    /\ RanTwice
    /\ \A t \in { "admissions", "graduation_rates", "graduation_rates_pell",
                  "financial_aid" } : facts[t] # EmptyBag

\* C5: transform_year(Y1) then transform_year(Y2) leaves the institution table
\* and the fact tables as transform_year(Y2) then transform_year(Y1) does.
C5_YearOrderIrrelevant ==
    ( /\ script = "none"
      /\ nruns = 2
      /\ LastRun >= 2
      /\ ended[LastRun].script = "transform_year"
      /\ ended[LastRun - 1].script = "transform_year"
      /\ ended[LastRun].how = "returned"
      /\ ended[LastRun - 1].how = "returned"
      /\ etl_run[LastRun].data_year # etl_run[LastRun - 1].data_year ) =>
        [ institution |-> institution, facts |-> facts ]
            = transform_year(etl_run[LastRun - 1].data_year, staging,
                             transform_year(etl_run[LastRun].data_year, staging, EmptyDb))

\* C6: etl_complete_run is applied exactly once to each run that has ended (so
\* a completed run is never afterwards marked failed).
C6_CompleteRunExactlyOnce ==
    \A r \in 1..Len(etl_run) : Finished(r) => applied[r] = 1

\* The rows of the target of a table entry.
TargetRows(st, inst, f, e) ==
    IF e.operation = "load"
    THEN IF e.table_name \in DOMAIN st THEN st[e.table_name] ELSE {}
    ELSE IF e.table_name = "institution" THEN BagToSet(inst)
    ELSE BagToSet(f[e.table_name])

\* C7: when a table-level operation ends with a failed entry, its target table
\* holds exactly the rows it held before the operation began.
C7_FailedOperationKeepsTarget ==
    [][ \A i \in 1..Len(etl_table_log') :
            ( /\ etl_table_log'[i].status = "failed"
              /\ i > Len(etl_table_log) )
            => TargetRows(staging', institution', facts', etl_table_log'[i])
                 = TargetRows(staging, institution, facts, etl_table_log'[i]) ]_vars

\* The messages of the exceptions a transform's statement raises.
StatementErrors == { DbError, SqlError, UndefinedTable }

\* A transform_year run that ended in an exception before its completion.
RaisedInSurvey(r) ==
    /\ ended[r].script = "transform_year"
    /\ ended[r].how = "raised"
    /\ etl_run[r].status # "completed"

\* C8: in transform_year, when an exception leaves the body of the with block
\* before complete(), the entry is closed "failed" with rows_affected 0 and the
\* exception's message, and the same exception reaches the caller (whose except
\* clause records its message on the run).
C8_ExitClosesEntryFailed ==
    \A r \in 1..Len(etl_run) :
        RaisedInSurvey(r) =>
            /\ EntriesOf(r) # {}
            /\ LET e == etl_table_log[CHOOSE i \in EntriesOf(r) :
                                         \A j \in EntriesOf(r) : j <= i]
               IN  /\ e.status = "failed"
                   /\ e.rows_affected = 0
                   /\ e.error \in StatementErrors
                   /\ etl_run[r].status = "failed"
                   /\ etl_run[r].error = e.error

C8_Witness ==
    \E r \in 1..Len(etl_run) :
        /\ RaisedInSurvey(r)
        /\ \E i \in EntriesOf(r) :
              /\ etl_table_log[i].status = "failed"
              /\ etl_table_log[i].error = DbError
              /\ etl_table_log[i].table_name = "admissions"

\* C9: a survey whose source table (transform_year) or archive (load_year) is
\* missing is skipped: no entry, 0 rows returned, nothing raised; the other
\* surveys are processed and the run ends "completed".
C9_MissingSourceSkipped ==
    ( /\ script = "none"
      /\ faults = 0
      /\ LastRun > 0
      /\ ended[LastRun].script \in { "transform_year", "load_year" } ) =>
        /\ ended[LastRun].how = "returned"
        /\ etl_run[LastRun].status = "completed"
        /\ ended[LastRun].script = "transform_year" =>
              /\ Len(rets) = Len(TransformSurveys)
              /\ \A i \in 1..Len(TransformSurveys) :
                    IF SourceTable("transform_year", TransformSurveys[i],
                                   etl_run[LastRun].data_year, staging) \in DOMAIN staging
                    THEN \E k \in EntriesOf(LastRun) :
                            /\ etl_table_log[k].table_name = TransformSurveys[i]
                            /\ etl_table_log[k].status = "completed"
                    ELSE rets[i] = 0 /\ ~HasEntry(LastRun, TransformSurveys[i])
        /\ ended[LastRun].script = "load_year" =>
              \A i \in 1..Len(SURVEY_FILES) :
                    LET f == LoadFiles("load_year", etl_run[LastRun].data_year)[i]
                    IN  HasEntry(LastRun, f.table) <=> f.zip \in DOMAIN RawDir

\* load_year skipped archives and completed, then transform_year skipped
\* enrollment and completions, ran financial_aid and completed.
C9_Witness ==
    /\ script = "none"
    /\ faults = 0
    /\ nruns = 2
    /\ LastRun = 2
    /\ ended[1].script = "load_year"
    /\ etl_run[1].status = "completed"
    /\ ~HasEntry(1, "efa2022")
    /\ HasEntry(1, "sfa2022")
    /\ ended[2].script = "transform_year"
    /\ etl_run[2].status = "completed"
    /\ ~HasEntry(2, "enrollment")
    /\ HasEntry(2, "financial_aid")
    /\ rets[5] = 0

\* The order in which both scripts declare the surveys.
DeclaredRank(table_name) ==
    CASE table_name = "institution" -> 1
      [] table_name = "admissions" -> 2
      [] table_name = "graduation_rates" -> 3
      [] table_name = "graduation_rates_pell" -> 4
      [] table_name = "enrollment" -> 5
      [] table_name = "completions" -> 6
      [] table_name = "financial_aid" -> 7

\* C10: in transform_year and transform_2023 the surveys run in the one declared
\* order, and the institution survey has finished before the upsert of any
\* dependent table begins.
C10_DeclaredOrder ==
    \A r \in 1..Len(etl_run) :
        ended[r].script \in Transforms =>
            \A i, j \in EntriesOf(r) :
                i < j =>
                    /\ DeclaredRank(etl_table_log[i].table_name)
                         < DeclaredRank(etl_table_log[j].table_name)
                    /\ etl_table_log[i].status = "completed"

C10_Witness ==
    \E r1, r2 \in 1..Len(etl_run) :
        /\ ended[r1].script = "transform_year"
        /\ ended[r2].script = "transform_2023"
        /\ \A r \in { r1, r2 } :
              /\ HasEntry(r, "institution")
              /\ HasEntry(r, "admissions")
              /\ HasEntry(r, "financial_aid")

\* The entries a step closes as completed.
ClosedCompleted(i) ==
    /\ i > Len(etl_table_log)
    /\ etl_table_log'[i].status = "completed"

\* C11: whenever a table entry is closed as completed, its rows_affected is the
\* number of rows the table's upsert inserted or updated (the rows of the
\* statement's SELECT, all found in the table afterwards), or the number of
\* rows the staging table holds after the copy.
C11_RowsAffectedExact ==
    [][ \A i \in 1..Len(etl_table_log') :
            ClosedCompleted(i) =>
                LET e == etl_table_log'[i]
                IN  IF e.operation = "load"
                    THEN e.rows_affected = Cardinality(staging'[e.table_name])
                    ELSE e.rows_affected =
                            Cardinality(
                                { r \in TargetRows(staging', institution', facts', e) :
                                    r \in SelectRows(script, e.table_name, year,
                                                     staging[e.source_table], institution) })
      ]_vars

\* In this behaviour a load closed an entry over three rows and a transform
\* closed one over two.
C11_Witness ==
    /\ nruns = 2
    /\ LastRun >= 2
    /\ \E i \in EntriesOf(LastRun - 1) :
          /\ etl_table_log[i].operation = "load"
          /\ etl_table_log[i].status = "completed"
          /\ etl_table_log[i].rows_affected = 3
    /\ \E j \in EntriesOf(LastRun) :
          /\ etl_table_log[j].operation = "transform"
          /\ etl_table_log[j].table_name = "institution"
          /\ etl_table_log[j].status = "completed"
          /\ etl_table_log[j].rows_affected = 2

\* C12: starting a new run for a year that was already run creates a new audit
\* run with table entries of its own, and no step changes a field of the audit
\* run or of the table entries of a run that has ended.
C12_HistoryKept ==
    [][ /\ \A r \in 1..Len(etl_run) :
              Finished(r) =>
                  /\ etl_run'[r] = etl_run[r]
                  /\ \A i \in 1..Len(etl_table_log) :
                        etl_table_log[i].run_id = r =>
                            etl_table_log'[i] = etl_table_log[i]
        /\ nruns' > nruns =>
              /\ Len(etl_run') = Len(etl_run) + 1
              /\ run_id' = Len(etl_run')
              /\ etl_run'[run_id'].status = "running"
        /\ \A i \in 1..Len(etl_table_log') :
              i > Len(etl_table_log) => etl_table_log'[i].run_id = run_id
      ]_vars

\* A year was run, and its run failed, after an earlier run of the same script
\* for the same year had completed with entries.
C12_Witness ==
    /\ script = "none"
    /\ nruns = 2
    /\ LastRun >= 2
    /\ ended[LastRun].script = ended[LastRun - 1].script
    /\ etl_run[LastRun].data_year = etl_run[LastRun - 1].data_year
    /\ etl_run[LastRun - 1].status = "completed"
    /\ etl_run[LastRun].status = "failed"
    /\ EntriesOf(LastRun - 1) # {}
    /\ EntriesOf(LastRun) # {}

\* The natural key of each fact table.
NaturalKey(t) ==
    CASE t = "admissions" -> { "unitid", "year" }
      [] t = "financial_aid" -> { "unitid", "year" }
      [] t = "enrollment" -> { "unitid", "year", "level", "race", "gender" }
      [] t = "graduation_rates" -> { "unitid", "year", "cohort_type", "race", "gender" }
      [] t = "graduation_rates_pell" -> { "unitid", "year", "cohort_type", "pell_status" }
      [] t = "completions" ->
            { "unitid", "year", "cip_code", "award_level", "race", "gender" }

\* C13: after any sequence of transform runs, every fact table holds at most
\* one row per natural key.
C13_OneRowPerNaturalKey ==
    \A t \in FactTables :
        /\ \A row \in BagToSet(facts[t]) : CopiesIn(row, facts[t]) = 1
        /\ \A a, b \in BagToSet(facts[t]) :
              (\A c \in NaturalKey(t) : a[c] = b[c]) => a = b

\* Two transform runs for 2023 completed and every fact table holds rows.
C13_Witness ==
    /\ script = "none"
    /\ nruns = 2
    /\ LastRun >= 2
    /\ ended[LastRun].script \in Transforms
    /\ ended[LastRun - 1].script \in Transforms
    /\ etl_run[LastRun].status = "completed"
    /\ etl_run[LastRun - 1].status = "completed"
    /\ etl_run[LastRun].data_year = etl_run[LastRun - 1].data_year
    /\ \A t \in FactTables : facts[t] # EmptyBag

\* A valid raw code: one or two family digits, alone or followed by '.' and
\* two or four digits; bare or inside the wrapper ="...".
ValidShape(sh) ==
    /\ Len(sh.family) \in { 1, 2 }
    /\ sh.dotted => Len(sh.sub) \in { 2, 4 }
    /\ sh.wrapper \in { "bare", "formula" }

\* C14: for every valid raw code, normalizing the normalized form again gives
\* the normalized string and the level that normalizing the code gave.
C14_NormalizeIdempotent ==
    ( call.fn = "main" /\ ValidShape(call.arg.shape) ) =>
        /\ normalize_cip_code(call.out.code) = call.out.code
        /\ get_cip_level(call.out.code) = call.out.level

\* C15: get_cip_level returns 2, 4 or 6: 2 for a code without '.', 4 when two
\* characters follow the '.', 6 when more than two follow it.
C15_LevelByStructure ==
    ( call.fn = "main" /\ call.arg.shape.wrapper \in { "bare", "formula" } ) =>
        /\ call.out.level \in { 2, 4, 6 }
        /\ ~call.arg.shape.dotted => call.out.level = 2
        /\ ( call.arg.shape.dotted /\ Len(call.arg.shape.sub) = 2 ) => call.out.level = 4
        /\ ( call.arg.shape.dotted /\ Len(call.arg.shape.sub) > 2 ) => call.out.level = 6

C15_Witness ==
    /\ call.fn = "main"
    /\ call.arg.CIPCode = << "1", ".", "0", "1", "0" >>
    /\ call.out.level = 6

\* Zeros on the left up to two characters; zeros on the right up to four.
LeftPadded(digits) ==
    CASE Len(digits) = 0 -> << "0", "0" >>
      [] Len(digits) = 1 -> << "0" >> \o digits
      [] OTHER -> digits

RightPadded(digits) ==
    CASE Len(digits) = 0 -> << "0", "0", "0", "0" >>
      [] Len(digits) = 1 -> digits \o << "0", "0", "0" >>
      [] Len(digits) = 2 -> digits \o << "0", "0" >>
      [] Len(digits) = 3 -> digits \o << "0" >>
      [] OTHER -> digits

ColumnSet(columns) == { columns[i] : i \in 1..Len(columns) }

\* The first alias of [efrace15+efrace16, eftotlt] a set of columns holds.
FirstAlias(H) ==
    IF { "efrace15", "efrace16" } \subseteq H THEN "efrace15+efrace16"
    ELSE IF "eftotlt" \in H THEN "eftotlt"
    ELSE None

\* The frame load_enrollment_year resolved the total of: the file exists,
\* holds a csv with a unitid column and a total line.
ResolvedFrame(dir) ==
    LET ef_file == find_enrollment_file(HistoricYear, dir)
    IN  /\ ef_file # None
        /\ ~ExtractRaises(dir[ef_file])
        /\ LET df == Lowered(read_zip_csv(dir[ef_file]))
           IN  In("unitid", df.columns) /\ TotalLines(df) # {}

\* C17: the total-enrollment resolver is a function of the set of the
\* header's columns, whatever their order: the sum efrace15+efrace16 when
\* both are there, eftotlt when it is the first alias there, and the
\* unresolved signal when neither alias is there.
C17_ResolverFirstAliasPresent ==
    /\ call.fn = "get_total_enrollment_column"
          => call.out = FirstAlias(ColumnSet(call.arg))
    /\ call.fn = "load_enrollment_year" /\ ResolvedFrame(call.arg)
          => call.out.total_col =
                FirstAlias(ColumnSet(Lowered(read_zip_csv(
                    call.arg[find_enrollment_file(HistoricYear, call.arg)])).columns))

\* A cell that parses as a number.
Parses(v) == v # NullInt /\ v # Dot

\* The rows load_enrollment_year derived a total of by the sum.
SummedLines(dir) ==
    TotalLines(Lowered(read_zip_csv(dir[find_enrollment_file(HistoricYear, dir)])))

\* C18: when load_enrollment_year derives the total as efrace15 + efrace16,
\* an addend that is missing or not a number counts as zero beside one that
\* parses; an institution whose two addends both fail to parse gets no
\* enrollment_historic row, and no row with total 0 is written.
C18_SumAbsentWhenBothFail ==
    call.fn = "load_enrollment_year" /\ call.out.total_col = "efrace15+efrace16"
                                     /\ call.out.error = None
        => /\ \A r \in SummedLines(call.arg) :
                LET written == { v \in call.out.values : v.unitid = r.unitid }
                IN  /\ ~Parses(r.efrace15) /\ ~Parses(r.efrace16) => written = {}
                    /\ Parses(r.efrace15) /\ ~Parses(r.efrace16) /\ r.efrace15 > 0
                          => written = { [ unitid |-> r.unitid, year |-> HistoricYear,
                                           total_enrollment |-> r.efrace15 ] }
                    /\ ~Parses(r.efrace15) /\ Parses(r.efrace16) /\ r.efrace16 > 0
                          => written = { [ unitid |-> r.unitid, year |-> HistoricYear,
                                           total_enrollment |-> r.efrace16 ] }
                    /\ Parses(r.efrace15) /\ Parses(r.efrace16)
                                          /\ r.efrace15 + r.efrace16 > 0
                          => written = { [ unitid |-> r.unitid, year |-> HistoricYear,
                                           total_enrollment |-> r.efrace15 + r.efrace16 ] }
           /\ \A v \in call.out.values : v.total_enrollment # 0

\* Unit 1's addends are a text and an empty cell, unit 2's are 3 and an
\* empty cell: only unit 2 is written, with total 3.
C18_Witness ==
    /\ call.fn = "load_enrollment_year"
    /\ call.out.total_col = "efrace15+efrace16"
    /\ \E r \in SummedLines(call.arg) :
          r.unitid = 1 /\ r.efrace15 = Dot /\ r.efrace16 = NullInt
    /\ call.out.values = { [ unitid |-> 2, year |-> HistoricYear, total_enrollment |-> 3 ] }
    /\ call.out.ret = 1

\* The closed entries of the transforms of admissions and institution.
CastEntries ==
    { i \in DOMAIN etl_table_log :
        /\ etl_table_log[i].operation = "transform"
        /\ etl_table_log[i].table_name \in { "admissions", "institution" } }

\* C19: a cell of a numeric field that is empty or is not a number comes out
\* as an absent value, and the load or the transform of its table does not
\* fail: no entry of the transforms of admissions and institution is failed;
\* no output row holds the text; load_graduation_rates_year catches no
\* exception and writes completers that are not a number as absent.
C19_CoercionNeverFails ==
    /\ \A i \in CastEntries : etl_table_log[i].status # "failed"
    /\ \A row \in BagToSet(facts["admissions"]) : row.applicants_total # Dot
    /\ \A row \in BagToSet(institution) : row.latitude # Dot
    /\ call.fn = "load_graduation_rates_year"
          => /\ call.out.error = None
             /\ \A v \in call.out.values : v.completers # Dot /\ v.cohort_size # Dot

\* C20: reading an archive fails when it holds no member ending in .csv and
\* when it holds more than one; a table is returned only when it holds
\* exactly one.
C20_ExactlyOneCsvMember ==
    call.fn \in { "read_zip_csv", "extract_csv_from_zip" }
        => (call.out.error = None <=> Len(CsvMembers(call.arg)) = 1)

\* A name that begins with a byte-order mark in one of its renderings.
BeginsWithBom(s) ==
    \/ Len(s) >= 1 /\ SubSeq(s, 1, 1) = BomChar
    \/ Len(s) >= 3 /\ SubSeq(s, 1, 3) = BomBytes

\* C21: every column name extract_csv_from_zip returns is the name of the
\* file without the byte-order mark in front of it, in any of its
\* renderings, without whitespace around it and in lower case; the header
\* BOM UNITID, InstNM becomes unitid, instnm.
C21_ColumnsCleaned ==
    call.fn = "extract_csv_from_zip"
        => /\ call.out = << call.arg.shape.text.clean, << "i", "n", "s", "t", "n", "m" >> >>
           /\ \A i \in 1..Len(call.out) :
                LET name == call.out[i]
                IN  /\ ~BeginsWithBom(name)
                    /\ name # << >> => name[1] # " " /\ name[Len(name)] # " "
                    /\ \A j \in 1..Len(name) : LowerChar(name[j]) = name[j]

\* The header BOM UNITID, InstNM, the mark read as latin-1.
C21_Witness ==
    /\ call.fn = "extract_csv_from_zip"
    /\ call.arg.columns = << BomBytes \o << "U", "N", "I", "T", "I", "D" >>,
                             << "I", "n", "s", "t", "N", "M" >> >>
    /\ call.out = << << "u", "n", "i", "t", "i", "d" >>, << "i", "n", "s", "t", "n", "m" >> >>

\* The path is the first of the candidates that exists: it exists and no
\* candidate before it does; None when no candidate exists.
IsFirstOf(path, patterns, dir) ==
    IF \A i \in 1..Len(patterns) : patterns[i] \notin DOMAIN dir
    THEN path = None
    ELSE \E i \in 1..Len(patterns) :
            /\ path = patterns[i]
            /\ path \in DOMAIN dir
            /\ \A j \in 1..(i - 1) : patterns[j] \notin DOMAIN dir

\* C22: each finder of load_historic returns the first candidate of its
\* list that exists, find_ic_file taking an HD file before an FA-HD file
\* before an IC file, and None exactly when no candidate exists; a loader
\* whose file is not found returns 0 rows and raises nothing.
C22_FirstExistingCandidate ==
    /\ call.fn = "find_enrollment_file"
          => IsFirstOf(call.out, enrollment_patterns(HistoricYear), call.arg)
    /\ call.fn = "find_ic_file"
          => IsFirstOf(call.out,
                       << "HD1998.zip", "hd1998.zip", "FA1998HD.zip", "fa1998hd.zip",
                          "IC1998.zip", "ic1998.zip" >>, call.arg)
    /\ call.fn = "find_completions_file"
          => IsFirstOf(call.out, completions_patterns(HistoricYear), call.arg)
    /\ call.fn = "find_gr_file"
          => IsFirstOf(call.out, gr_patterns(HistoricYear), call.arg)
    /\ call.fn = "load_enrollment_year"
          /\ (\A i \in 1..4 : enrollment_patterns(HistoricYear)[i] \notin DOMAIN call.arg)
          => call.out.ret = 0 /\ call.out.error = None /\ call.out.values = {}
    /\ call.fn = "load_completions_year"
          /\ (\A i \in 1..4 : completions_patterns(HistoricYear)[i] \notin DOMAIN call.arg)
          => call.out.ret = 0 /\ call.out.error = None /\ call.out.values = {}
    /\ call.fn = "load_graduation_rates_year"
          /\ (\A i \in 1..2 : gr_patterns(HistoricYear)[i] \notin DOMAIN call.arg)
          => call.out.ret = 0 /\ call.out.error = None /\ call.out.values = {}

\* RAW_DIR holds an IC file and an FA-HD file: find_ic_file returns the
\* FA-HD file.
C22_Witness ==
    /\ call.fn = "find_ic_file"
    /\ DOMAIN call.arg = { "IC1998.zip", "fa1998hd.zip" }
    /\ call.out = "fa1998hd.zip"

\* The rows of the completions file load_completions_year read.
CompletionRows(dir) ==
    Lowered(read_zip_csv(dir[find_completions_file(HistoricYear, dir)]))

\* C24: in load_completions_year, when the file has no ctotalt column and
\* has both crace15 and crace16, the count of every row is crace15 +
\* crace16, an addend that is not a number counting as 0: the total written
\* for an institution and a CIP family is the sum of those counts.
C24_CountIsSumOfBoth ==
    call.fn = "load_completions_year" /\ find_completions_file(HistoricYear, call.arg) # None
        => LET df == CompletionRows(call.arg)
               family == { r \in df.rows : r.unitid = 1 }
               count(r) == (IF r.crace15 \in { NullInt, Dot } THEN 0 ELSE r.crace15)
                           + (IF r.crace16 \in { NullInt, Dot } THEN 0 ELSE r.crace16)
               sum == LET r1 == CHOOSE r \in family : r.cipcode = Cip0101
                          r2 == CHOOSE r \in family : r.cipcode = Cip0102
                      IN  count(r1) + count(r2)
           IN  ~In("ctotalt", df.columns) /\ In("crace15", df.columns)
                                          /\ In("crace16", df.columns)
                  => call.out.values =
                        IF sum > 0
                        THEN { [ unitid |-> 1, year |-> HistoricYear,
                                 cip_2digit |-> << "0", "1" >>, total_completions |-> sum ] }
                        ELSE {}

\* The tables filled by an unpivot, and the rows of a table that come from
\* one row the statement read.
Unpivoted == { "enrollment", "completions", "graduation_rates" }

EmittedFor(table, r, y, rows) ==
    { o \in rows :
        /\ o.year = y
        /\ CASE table = "enrollment" ->
                    o.unitid = r.unitid /\ o.level = EfLevel(r.efalevel)
             [] table = "completions" ->
                    /\ o.unitid = r.unitid
                    /\ o.cip_code = r.cipcode
                    /\ o.award_level = r.awlevel
             [] table = "graduation_rates" -> o.unitid = r.c.unitid }

\* C23: for every staging row that passes the filters of the statement, the
\* unpivot of enrollment, completions and graduation rates of transform_year
\* writes one row for each of the 30 declared (race, gender) pairs and no
\* second row for a pair: 30 rows for the staging row, no value being
\* filtered out.
C23_OneRowPerDeclaredPair ==
    [][ \A i \in 1..Len(etl_table_log') :
            /\ ClosedCompleted(i)
            /\ script = "transform_year"
            /\ etl_table_log'[i].table_name \in Unpivoted
            => LET table == etl_table_log'[i].table_name
                   passing == Feed(table, staging[etl_table_log'[i].source_table],
                                   institution)
               IN  \A r \in passing :
                      LET out == EmittedFor(table, r, year, BagToSet(facts'[table]))
                      IN  /\ Cardinality(out) = 30
                          /\ \A o \in out : CopiesIn(o, facts'[table]) = 1
                          /\ \A race \in { Races[k] : k \in 1..10 },
                                gender \in { Genders[k] : k \in 1..3 } :
                                Cardinality({ o \in out : /\ o.race = race
                                                          /\ o.gender = gender }) = 1
      ]_vars

\* transform_year has unpivoted a staging row of each of the three tables.
C23_Witness ==
    /\ \E i \in DOMAIN etl_table_log :
          /\ etl_table_log[i].table_name = "enrollment"
          /\ etl_table_log[i].operation = "transform"
          /\ etl_table_log[i].source_table = "efa2023"
          /\ etl_table_log[i].rows_affected = 30
    /\ \E i \in DOMAIN etl_table_log :
          /\ etl_table_log[i].table_name = "graduation_rates"
          /\ etl_table_log[i].operation = "transform"
          /\ etl_table_log[i].source_table = "gr2023"
          /\ etl_table_log[i].rows_affected = 30
    /\ \E i \in DOMAIN etl_table_log :
          /\ etl_table_log[i].table_name = "completions"
          /\ etl_table_log[i].operation = "transform"
          /\ etl_table_log[i].source_table = "c_a2023"
          /\ etl_table_log[i].rows_affected = 30

\* The number of batches a file of n rows is read in.
Batches(n, batch_size) == (n + batch_size - 1) \div batch_size

\* C25: with dry_run=True, BasePipeline.run and PowerPlantETL.run call no
\* loader and write nothing to the database, while every batch is extracted
\* and transformed: when run returns, the extracted counter is the number of
\* source rows, both transforms ran on every batch, and the loaded counters
\* are 0.
C25_DryRunLoadsNothing ==
    call.fn = "run" /\ call.arg.dry_run
        => /\ call.loads = 0
           /\ call.power_plants = << >>
           /\ call.generation = << >>
           /\ call.returned
                => /\ call.transforms
                        = 2 * Batches(Len(call.arg.rows), call.arg.batch_size)
                   /\ IF call.arg.pipeline = "BasePipeline"
                      THEN /\ call.stats.extracted = Len(call.arg.rows)
                           /\ call.stats.loaded = 0
                      ELSE /\ call.stats.plants_extracted = Len(call.arg.rows)
                           /\ call.stats.plants_loaded = 0
                           /\ call.stats.generation_records = 0

\* A dry run of PowerPlantETL over three rows in two batches has returned,
\* two of the rows being valid plants.
C25_Witness ==
    /\ call.fn = "run"
    /\ call.arg.dry_run
    /\ call.arg.pipeline = "PowerPlantETL"
    /\ call.returned
    /\ Len(call.arg.rows) = 3
    /\ call.arg.batch_size = 2
    /\ call.stats.plants_extracted = 3
    /\ call.stats.errors = 1
    /\ call.transforms = 4

\* The rows of the fact tables whose year is not y, with their multiplicities.
OtherYears(f, y) ==
    [ t \in FactTables |->
        [ r \in { q \in BagToSet(f[t]) : q.year # y } |-> f[t][r] ] ]

\* C26: transform_year(Y) creates, changes or removes no fact-table row whose
\* year differs from Y: every step of the script leaves the rows of the other
\* years as they were.
C26_OtherYearsUntouched ==
    [][ script = "transform_year" => OtherYears(facts', year) = OtherYears(facts, year) ]_vars

\* transform_year(2023) has written admissions of 2023 next to those that
\* transform_year(2022) left.
C26_Witness ==
    /\ script = "transform_year"
    /\ year = 2023
    /\ \E r \in BagToSet(facts["admissions"]) : r.year = 2022 /\ r.unitid = 1
    /\ \E r \in BagToSet(facts["admissions"]) : r.year = 2023 /\ r.unitid = 1

\* C27: an audit run whose final status is completed contains no table entry
\* whose status is failed, in the raw loaders (load_year, load_2023) as in the
\* transforms.
C27_CompletedRunHasNoFailedEntry ==
    \A r \in 1..Len(etl_run) :
        Finished(r) /\ etl_run[r].status = "completed" =>
            \A i \in EntriesOf(r) : etl_table_log[i].status # "failed"

\* The lines of the file that main does not skip.
KeptLines == { i \in 1..Len(call.arg) : ~Skipped(call.arg[i]) }

DistinctCleanedCodes ==
    \A i, j \in KeptLines :
        i # j => clean_cip_code(call.arg[i].CIPCode) # clean_cip_code(call.arg[j].CIPCode)

\* C28: in load_cip_codes, source rows with distinct cleaned codes are stored
\* under distinct ref_cip keys: after the load the number of rows of ref_cip
\* is the reported inserted count, and each row's level and display code
\* belong to the source row its title comes from.
C28_DistinctCodesDistinctKeys ==
    ( /\ call.fn = "load_cip_codes"
      /\ call.committed
      /\ DistinctCleanedCodes )
        => /\ Cardinality(call.ref_cip) = call.inserted
           /\ \A r \in call.ref_cip :
                 \E i \in KeptLines :
                    /\ r.title = call.arg[i].CIPTitle
                    /\ r.code_display = clean_cip_code(call.arg[i].CIPCode)
                    /\ r.level = get_cip_level(clean_cip_code(call.arg[i].CIPCode))

\* What transform_year(y) leaves when it starts on db with the surveys from
\* the i-th on still to run: the normalized tables, the status of the run and
\* the statuses of its table entries, by table.
RECURSIVE YearOutcome(_, _, _, _, _)
YearOutcome(y, st, db, entries, i) ==
    IF i > Len(TransformSurveys)
    THEN [ institution |-> db.institution, facts |-> db.facts, run |-> "completed",
           entries |-> entries ]
    ELSE LET table == TransformSurveys[i]
             source == SourceTable("transform_year", table, y, st)
         IN  IF ~table_exists(st, source)
             THEN YearOutcome(y, st, db, entries, i + 1)
             ELSE IF SqlRaises("transform_year", table, y, st[source], db.institution)
             THEN [ institution |-> db.institution, facts |-> db.facts, run |-> "failed",
                    entries |-> entries @@ (table :> "failed") ]
             ELSE YearOutcome(y, st,
                     [ institution |-> InstitutionAfter("transform_year", table, y,
                                                        st[source], db.institution),
                       facts |-> FactsAfter("transform_year", table, y, st[source],
                                            db.institution, db.facts) ],
                     entries @@ (table :> "completed"), i + 1)

\* What the last run left: the same record, read off the database.
LastOutcome ==
    [ institution |-> institution, facts |-> facts, run |-> etl_run[LastRun].status,
      entries |-> [ t \in { etl_table_log[i].table_name : i \in EntriesOf(LastRun) } |->
                      etl_table_log[CHOOSE i \in EntriesOf(LastRun) :
                                       etl_table_log[i].table_name = t].status ] ]

\* A transform of 2023 ran to its end on an empty normalized schema, all seven
\* sources present under the names of both scripts.
Transformed2023 ==
    /\ nruns = 1
    /\ LastRun >= 1
    /\ ended[LastRun].script \in Transforms
    /\ Finished(LastRun)
    /\ faults = 0

\* C29: given staging tables with the same content under each script's table
\* names and all seven 2023 sources present, transform_2023 and
\* transform_year(2023) leave the same rows in every normalized table and the
\* same final statuses in the audit run and its table entries, on success and
\* when a table's SQL fails: whichever of the two ran, it leaves what
\* transform_year(2023) leaves on that staging.
C29_SameAsTransformYear ==
    Transformed2023 =>
        LastOutcome = YearOutcome(2023, staging, EmptyDb, << >>, 1)

\* The files of year y whose archive holds a CSV member.
Loadable(y) ==
    { ExistingFiles("load_year", y)[i] : i \in 1..Len(ExistingFiles("load_year", y)) }
        \ { f \in { ExistingFiles("load_year", y)[i] :
                        i \in 1..Len(ExistingFiles("load_year", y)) } :
                ExtractRaises(RawDir[f.zip]) }

\* C30: re-running load_year for a year whose archives are unchanged leaves
\* each staging table with exactly the rows of its archive: the table is
\* replaced, never appended to, so after any number of runs in which no
\* statement fails its row count is the archive's row count.
C30_ReloadLeavesArchiveRows ==
    ( call.fn = "load_year" /\ call.year = 0 )
        => \A y \in Years :
              call.runs[y] >= 1 =>
                 \A f \in Loadable(y) :
                    /\ f.table \in DOMAIN call.tables
                    /\ call.tables[f.table] = SetToBag(extract_csv_from_zip(RawDir[f.zip]))
                    /\ BagCardinality(call.tables[f.table])
                          = Cardinality(extract_csv_from_zip(RawDir[f.zip]))

\* load_year(2023) has returned for the third time; adm2023 holds the two rows
\* of ADM2023.zip.
C30_Witness ==
    /\ call.fn = "load_year"
    /\ call.year = 0
    /\ call.runs[2023] = 3
    /\ Len(call.log) = 24
    /\ BagCardinality(call.tables["adm2023"]) = 2

====
